---- MODULE Spec2Model ----
(***************************************************************************)
(* TGMS worker: the job-queue consumer (main.py, worker_main_loop and      *)
(* process_tgms_job), the broadcast engine (group_sender.py,               *)
(* GroupMessageSender.send_to_groups) and the store operations they use    *)
(* (database.py, DatabaseManager), and the join-request handler            *)
(* (join_request_handler.py, JoinRequestHandler.process_join_request).     *)
(*                                                                         *)
(* The specifications share the module's variables:                        *)
(*   Spec      the consumers of one jobs table (claim, dispatch, finalize) *)
(*   SpecSeq   broadcasts of one engine over the managed groups, statement *)
(*             by statement                                                *)
(*   SpecSlot  concurrent callers of the notification-slot operations,     *)
(*             with the store's clock                                      *)
(*   SpecJob   send_to_groups jobs handled by one worker, one after the    *)
(*             other: link cycling, the broadcast, the handler's result    *)
(*   SpecPar   send_to_groups jobs handled by two workers at once          *)
(*   SpecJoin  the consumers of a queue of join-request jobs               *)
(*   SpecRepro one run of repro_db.py's test_db_logic, with the clock      *)
(*   SpecCrash the consumers, each of which can die at any point           *)
(*   SpecStop  the consumers, each of which can be interrupted (SIGINT)    *)
(*   FairOnce  the consumers in run-once mode, under weak fairness of the  *)
(*             loop's steps                                                *)
(*   SpecDelete broadcasts of one engine to one group, with the clock      *)
(*   SpecTags  broadcasts of one engine with every payload combination     *)
(*   SpecCycle the consumers without store errors and crashes              *)
(*   SpecFaults the consumers with store errors and crashes                *)
(*   FairCycle the consumers without faults, under weak fairness of each   *)
(*             consumer's loop                                             *)
(*   SpecSolo  a single consumer without faults                            *)
(*   SpecRace  broadcasts of two engines at once over a group close to the *)
(*             failure threshold                                           *)
(*   SpecGate  one consumer of join-request jobs, some for a chat without  *)
(*             a managed_groups row                                        *)
(***************************************************************************)
EXTENDS Integers, Sequences, FiniteSets, TLC

None == "none"

(***************************************************************************)
(* Job queue: constants and state                                          *)
(***************************************************************************)
Consumers == {"c1", "c2"}

NJobs == 2

JobIds == 1..NJobs

TGMS_BOT_TOKEN == "tgms"

\* the retry ceiling of worker_main_loop: "if retries < 3"
MAX_RETRIES == 3

\* a job row's job_type and payload as the producer wrote them: a payload is
\* JSON text ("json") or text json.loads rejects ("garbage")
JobShapes ==
    { [job_type |-> "send_to_groups", payload |-> "json"],
      [job_type |-> "process_update", payload |-> "json"],
      [job_type |-> "bogus",          payload |-> "json"],
      [job_type |-> "send_to_groups", payload |-> "garbage"] }

\* what the producer queued: any shape for this worker's partition, and jobs of
\* another bot's partition (their shape is never read here)
JobSeeds ==
    { [shape |-> sh, bot_token |-> TGMS_BOT_TOKEN] : sh \in JobShapes }
    \cup { [shape |-> [job_type |-> "process_update", payload |-> "json"],
            bot_token |-> "other"] }

VARIABLES
    jobs,            \* the jobs table: job_id -> row
    row_lock,        \* job_id -> the consumer whose open transaction locks the row
    pc,              \* consumer -> position in worker_main_loop
    job_to_process,  \* consumer -> the row it selected (a copy), or NoJob
    success          \* consumer -> what process_tgms_job returned

qvars == <<jobs, row_lock, pc, job_to_process, success>>

(***************************************************************************)
(* Broadcast engine: constants and state                                    *)
(***************************************************************************)
Workers == {"w1", "w2"}

Groups == {1, 2}

\* the recipient (instagram_username) of a broadcast; None when not given
Usernames == {"alice"}

\* the store's clock advances in steps of TickSeconds and stops at MaxTime
TickSeconds == 5

MaxTime == 20

\* message ids the platform hands out
MaxMsgId == 2

\* claim_notification_slot: "total_seconds() < 15"
DEBOUNCE_SECONDS == 15

\* GroupMessageSender.__init__: max_consecutive_failures
max_consecutive_failures == 7

\* Python's None where a message id is expected
NoneId == -1

\* str(e) of a failed send: a transport error, or the platform's description
ErrorMessages == {"Read timed out", "403 Client Error: Forbidden", "bot was kicked"}

\* those of them with which the platform says the bot is forbidden or was kicked
ForbiddenClass == {"403 Client Error: Forbidden", "bot was kicked"}

VARIABLES
    now,               \* the clock (seconds)
    managed_groups,    \* group_id -> [is_active, consecutive_failures, final_message_allowed]
    slots,             \* live_notification_messages: <<group, username>> -> row or NoSlot
    bpc,               \* worker -> position in send_to_groups
    bgroups,           \* worker -> the rows get_active_managed_groups returned
    bidx,              \* worker -> index of the current group in bgroups
    buser,             \* worker -> instagram_username of the broadcast
    claim_result,      \* worker -> what claim_notification_slot returned
    slot_read,         \* worker -> current_message_id inside claim_notification_slot
    response,          \* worker -> the platform's answer to the send
    failure_count,     \* worker -> what increment_failure_count returned
    results,           \* worker -> the results dict of the broadcast
    calls,             \* worker -> platform calls of the current broadcast, in order
    streak,            \* group -> generic send failures since its last successful send
    last_claim,        \* <<group, username>> -> time of the last successful claim
    delivered          \* worker -> groups the platform accepted a message for, this broadcast

bvars == <<now, managed_groups, slots, bpc, bgroups, bidx, buser, claim_result,
           slot_read, response, failure_count, results, calls, streak, last_claim,
           delivered>>

(***************************************************************************)
(* The send_to_groups handler (process_tgms_job): constants and state       *)
(***************************************************************************)
\* the longest monetized_url list of an insta_links record
NLinks == 2

\* handler runs (job attempts) the specifications of the handler follow
MaxAttempts == 3

VARIABLES
    insta_links,     \* username -> the latest insta_links record, or NoLinkRecord
    hpc,             \* worker -> position in the send_to_groups branch of process_tgms_job
    h_user,          \* worker -> username extracted from the payload text, or None
    h_details,       \* worker -> insta_link_details as get_insta_link returned it
    watch_link,      \* worker -> index of the link chosen as watch_link, or NoneId
    outcome,         \* worker -> what process_tgms_job returned
    attempts,        \* handler runs started so far
    link_log         \* the link indices written by update_last_used_link_index, in order

hvars == <<insta_links, hpc, h_user, h_details, watch_link, outcome, attempts, link_log>>

(***************************************************************************)
(* The join-request handler: constants and state                            *)
(***************************************************************************)
Users == {"u1"}

VARIABLES
    user_groups,     \* all_tele_users.groups: user -> group id, or NoneId for NULL
    join_requests,   \* <<user, chat>> -> statuses of its join_requests rows, oldest first
    approve_log      \* job_id -> the answers of approve_join_request to its runs, in order

jvars == <<user_groups, join_requests, approve_log>>

(***************************************************************************)
(* The consumer loop's lifecycle: run-once mode and the interrupt           *)
(***************************************************************************)
VARIABLES
    cancel_requested,  \* consumer -> asyncio.run has cancelled the loop's task (SIGINT)
    run_once_retries,  \* consumer -> the loop's run_once_retries counter
    dispatched         \* job_id -> calls of process_tgms_job for the job, by any consumer

lvars == <<cancel_requested, run_once_retries, dispatched>>

(***************************************************************************)
(* repro_db.py, test_db_logic: the script's position and locals             *)
(***************************************************************************)
VARIABLES
    tpc,             \* position in test_db_logic
    msg_id_1,        \* the message id the script saves
    run_1,           \* (claimed, msg_id) of the first claim
    saved_msg_id,    \* what get_last_notification returned after the save
    run_2            \* (claimed, last_msg_id_2) of the second claim

tvars == <<tpc, msg_id_1, run_1, saved_msg_id, run_2>>

(***************************************************************************)
(* The outbound message of a broadcast: payload and debug tags              *)
(***************************************************************************)
VARIABLES
    payload,         \* worker -> which of photo_url, caption, text the broadcast was given
    text_tags,       \* worker -> the debug tags appended to the local "text" so far
    sent_tags        \* worker -> the debug tags of each message sent, in order

mvars == <<payload, text_tags, sent_tags>>

vars == <<qvars, bvars, hvars, jvars, lvars, tvars, mvars>>

(***************************************************************************)
(* Store operations (database.py) and Python values                        *)
(***************************************************************************)
\* no row of live_notification_messages for the key
NoSlot == [created_at |-> NoneId, message_id |-> NoneId]

NoResponse == [ok |-> FALSE, error |-> None, message_id |-> 0]

NoClaim == <<>>

\* a managed_groups row as upsert_managed_group inserts it
GroupRow(allowed) ==
    [is_active |-> TRUE, consecutive_failures |-> 0, final_message_allowed |-> allowed]

\* what the platform can answer to send_photo / send_message: the dict that
\* TelegramAPI._request resolves to, {"ok": True, "result": {...}} or {"ok": False, "error": str(e)}
Responses ==
    { [ok |-> TRUE, error |-> None, message_id |-> m] : m \in 1..MaxMsgId }
    \cup { [ok |-> FALSE, error |-> e, message_id |-> 0] : e \in ErrorMessages }

\* bool(x) of a message id: None and 0 are falsy
TruthyId(x) == x # NoneId /\ x # 0

\* bool(t) of a tuple: any non-empty tuple is truthy
TruthyTuple(t) == Len(t) > 0

\* "sub in msg" on the messages above
Contains(msg, sub) ==
    <<msg, sub>> \in { <<"403 Client Error: Forbidden", "403">>,
                       <<"403 Client Error: Forbidden", "Forbidden">>,
                       <<"403 client error: forbidden", "403">>,
                       <<"bot was kicked", "kicked">> }

\* error_msg.lower()
Lower(msg) ==
    IF msg = "403 Client Error: Forbidden" THEN "403 client error: forbidden"
    ELSE IF msg = "Read timed out" THEN "read timed out"
    ELSE msg

\* "403" in error_msg or "Forbidden" in error_msg or "kicked" in error_msg.lower()
IsCriticalNever(error_msg) == FALSE

IsCritical(error_msg) ==
    \/ Contains(error_msg, "403")
    \/ Contains(error_msg, "Forbidden")
    \/ Contains(Lower(error_msg), "kicked")

\* claim_notification_slot: (now - created_at).total_seconds() < 15
SlotLockedWindowOff(row, t) == FALSE

SlotLocked(row, t) == t - row.created_at < DEBOUNCE_SECONDS

\* claim_notification_slot: row[1] if row[1] and row[1] > 0 else None
CurrentMessageIdDropped(row) == NoneId

CurrentMessageId(row) ==
    IF row = NoSlot THEN NoneId
    ELSE IF TruthyId(row.message_id) /\ row.message_id > 0 THEN row.message_id
    ELSE NoneId

\* claim_notification_slot: INSERT ... VALUES (.., 0, NOW())
\*   ON CONFLICT (group_id, username) DO UPDATE SET created_at = NOW()
ClaimUpsertResetsId(row, t) == [created_at |-> t, message_id |-> 0]

ClaimUpsert(row, t) ==
    IF row = NoSlot THEN [created_at |-> t, message_id |-> 0]
    ELSE [row EXCEPT !.created_at = t]

\* save_notification: INSERT ... ON CONFLICT DO UPDATE SET message_id, created_at = NOW()
SaveKeepsId(row, message_id, t) == [created_at |-> t, message_id |-> row.message_id]

SaveUpsert(row, message_id, t) == [created_at |-> t, message_id |-> message_id]

\* get_last_notification: row[0] if row else None
GetLastNotification(row) == IF row = NoSlot THEN NoneId ELSE row.message_id

\* increment_failure_count: consecutive_failures = COALESCE(consecutive_failures, 0) + 1
IncrementLost(n) == n

Incremented(n) == n + 1

\* send_to_groups: failure_count >= self.max_consecutive_failures
ThresholdAtThree(n) == n >= 3

ReachedThreshold(n) == n >= max_consecutive_failures

\* deactivate_group: SET is_active = false (the counter is not in the SET list)
DeactivatedResetsCount(row) == [row EXCEPT !.is_active = FALSE, !.consecutive_failures = 0]

Deactivated(row) == [row EXCEPT !.is_active = FALSE]

RECURSIVE Ascending(_)
\* ORDER BY group_id
Ascending(S) ==
    IF S = {} THEN <<>>
    ELSE LET m == CHOOSE x \in S : \A y \in S : x <= y
         IN <<m>> \o Ascending(S \ {m})

\* get_active_managed_groups: WHERE is_active = true ORDER BY group_id
GetActiveManagedGroups ==
    LET ids == Ascending({g \in Groups : managed_groups[g].is_active})
    IN [i \in 1..Len(ids) |->
           [group_id |-> ids[i],
            final_message_allowed |-> managed_groups[ids[i]].final_message_allowed]]

(***************************************************************************)
(* Job queue: worker_main_loop                                              *)
(***************************************************************************)
\* fetchone() returned no row
NoJobId == 0

NoJob == [job_id |-> NoJobId]

JobRow(j, shape, token) ==
    [job_id |-> j, status |-> "pending", bot_token |-> token,
     job_type |-> shape.job_type, payload |-> shape.payload,
     retries |-> 0, created_at |-> j]

\* WHERE status = 'pending' AND bot_token = :bot_token
MatchesAnyStatus(j) == jobs[j].bot_token = TGMS_BOT_TOKEN

MatchesAnyToken(j) == jobs[j].status = "pending"

Matches(j) == jobs[j].status = "pending" /\ jobs[j].bot_token = TGMS_BOT_TOKEN

\* FOR UPDATE SKIP LOCKED: rows locked by another open transaction are passed over
NoRowLocking(c, j) == TRUE

Unlocked(c, j) == row_lock[j] \in {None, c}

\* ORDER BY created_at LIMIT 1
SelectQuery(c) ==
    LET cand == {j \in JobIds : Matches(j) /\ Unlocked(c, j)}
    IN IF cand = {} THEN NoJobId
       ELSE CHOOSE j \in cand : \A k \in cand : jobs[j].created_at <= jobs[k].created_at

\* what process_tgms_job can return for a job row
ProcessOutcomes(job) ==
    IF job.payload # "json" THEN {FALSE}                       \* json.loads raises
    ELSE IF job.job_type = "send_to_groups" THEN {TRUE, FALSE} \* results['success'] > 0
    ELSE IF job.job_type = "process_update" THEN {TRUE}
    ELSE {FALSE}                                               \* unknown job_type

FinalStatusCeilingOff(ok, retries) ==
    IF ok THEN "completed" ELSE IF retries <= MAX_RETRIES THEN "pending" ELSE "failed"

FinalStatus(ok, retries) ==
    IF ok THEN "completed" ELSE IF retries < MAX_RETRIES THEN "pending" ELSE "failed"

\* 'retries': retries + 1 if not success else retries
FinalRetriesUncounted(ok, retries) == retries

FinalRetries(ok, retries) == IF ok THEN retries ELSE retries + 1

\* the SELECT: a row comes back locked, or nothing does and the loop sleeps
Select(c) ==
    /\ pc[c] = "idle"
    /\ LET j == SelectQuery(c)
       IN IF j = NoJobId
          THEN /\ pc' = [pc EXCEPT ![c] = "sleeping"]
               /\ UNCHANGED <<row_lock, job_to_process>>
          ELSE /\ pc' = [pc EXCEPT ![c] = "locked"]
               /\ row_lock' = [row_lock EXCEPT ![j] = c]
               /\ job_to_process' = [job_to_process EXCEPT ![c] = jobs[j]]
    /\ UNCHANGED <<jobs, success, bvars, hvars, jvars, lvars, tvars, mvars>>

\* asyncio.sleep(POLLING_INTERVAL) after an empty poll
Wake(c) ==
    /\ pc[c] = "sleeping"
    /\ pc' = [pc EXCEPT ![c] = "idle"]
    /\ UNCHANGED <<jobs, row_lock, job_to_process, success, bvars, hvars, jvars, lvars, tvars, mvars>>

\* the claim without its UPDATE: the lock is released, the row stays pending
ClaimCommitSkipsUpdate(c) ==
    /\ pc[c] = "locked"
    /\ row_lock' = [k \in JobIds |-> IF row_lock[k] = c THEN None ELSE row_lock[k]]
    /\ pc' = [pc EXCEPT ![c] = "claimed"]
    /\ UNCHANGED <<jobs, job_to_process, success, bvars, hvars, jvars, lvars, tvars, mvars>>

\* UPDATE jobs SET status = 'processing' WHERE job_id = :job_id; commit
ClaimCommit(c) ==
    /\ pc[c] = "locked"
    /\ LET j == job_to_process[c].job_id
       IN /\ jobs' = [jobs EXCEPT ![j].status = "processing"]
          /\ row_lock' = [k \in JobIds |-> IF row_lock[k] = c THEN None ELSE row_lock[k]]
    /\ pc' = [pc EXCEPT ![c] = "claimed"]
    /\ UNCHANGED <<job_to_process, success, bvars, hvars, jvars, lvars, tvars, mvars>>

\* the store raises in the select, the update or the commit of the claim:
\* except-branch, session.rollback()
ClaimErrorKeepsUpdate(c) ==
    /\ pc[c] \in {"idle", "locked"}
    /\ jobs' = IF pc[c] = "locked"
               THEN [jobs EXCEPT ![job_to_process[c].job_id].status = "processing"]
               ELSE jobs
    /\ row_lock' = [k \in JobIds |-> IF row_lock[k] = c THEN None ELSE row_lock[k]]
    /\ pc' = [pc EXCEPT ![c] = "backoff"]
    /\ UNCHANGED <<job_to_process, success, bvars, hvars, jvars, lvars, tvars, mvars>>

ClaimError(c) ==
    /\ pc[c] \in {"idle", "locked"}
    /\ row_lock' = [k \in JobIds |-> IF row_lock[k] = c THEN None ELSE row_lock[k]]
    /\ pc' = [pc EXCEPT ![c] = "backoff"]
    /\ UNCHANGED <<jobs, job_to_process, success, bvars, hvars, jvars, lvars, tvars, mvars>>

\* success = await process_tgms_job(job_to_process, ...)
Process(c) ==
    /\ pc[c] = "claimed"
    /\ \E ok \in ProcessOutcomes(job_to_process[c]) :
          success' = [success EXCEPT ![c] = ok]
    /\ pc' = [pc EXCEPT ![c] = "processed"]
    /\ dispatched' = [dispatched EXCEPT ![job_to_process[c].job_id] = @ + 1]
    /\ UNCHANGED <<jobs, row_lock, job_to_process, cancel_requested, run_once_retries,
                   bvars, hvars, jvars, tvars, mvars>>

\* the finalizing UPDATE that also stamps a requeued row with a new created_at
FinalizeRestamps(c) ==
    /\ pc[c] = "processed"
    /\ LET j == job_to_process[c].job_id
           retries == job_to_process[c].retries
       IN jobs' = [jobs EXCEPT ![j].status = FinalStatus(success[c], retries),
                               ![j].retries = FinalRetries(success[c], retries),
                               ![j].created_at =
                                   IF FinalStatus(success[c], retries) = "pending"
                                   THEN @ + NJobs ELSE @]
    /\ pc' = [pc EXCEPT ![c] = "idle"]
    /\ job_to_process' = [job_to_process EXCEPT ![c] = NoJob]
    /\ success' = [success EXCEPT ![c] = FALSE]
    /\ UNCHANGED <<row_lock, bvars, hvars, jvars, lvars, tvars, mvars>>

\* the end of the iteration without the finalizing UPDATE
FinalizeDropsUpdate(c) ==
    /\ pc[c] = "processed"
    /\ pc' = [pc EXCEPT ![c] = "idle"]
    /\ job_to_process' = [job_to_process EXCEPT ![c] = NoJob]
    /\ success' = [success EXCEPT ![c] = FALSE]
    /\ UNCHANGED <<jobs, row_lock, bvars, hvars, jvars, lvars, tvars, mvars>>

\* UPDATE jobs SET status = :status, retries = :retries WHERE job_id = :job_id; commit
Finalize(c) ==
    /\ pc[c] = "processed"
    /\ LET j == job_to_process[c].job_id
           retries == job_to_process[c].retries
       IN jobs' = [jobs EXCEPT ![j].status = FinalStatus(success[c], retries),
                               ![j].retries = FinalRetries(success[c], retries)]
    /\ pc' = [pc EXCEPT ![c] = "idle"]
    /\ job_to_process' = [job_to_process EXCEPT ![c] = NoJob]
    /\ success' = [success EXCEPT ![c] = FALSE]   \* dead until the next Process
    /\ UNCHANGED <<row_lock, bvars, hvars, jvars, lvars, tvars, mvars>>

\* the store raises in the finalizing update or its commit
FinalizeError(c) ==
    /\ pc[c] = "processed"
    /\ pc' = [pc EXCEPT ![c] = "backoff"]
    /\ success' = [success EXCEPT ![c] = FALSE]   \* dead until the next Process
    /\ UNCHANGED <<jobs, row_lock, job_to_process, bvars, hvars, jvars, lvars, tvars, mvars>>

\* asyncio.sleep(POLLING_INTERVAL * 2), then the next iteration: job_to_process = None
Backoff(c) ==
    /\ pc[c] = "backoff"
    /\ pc' = [pc EXCEPT ![c] = "idle"]
    /\ job_to_process' = [job_to_process EXCEPT ![c] = NoJob]
    /\ UNCHANGED <<jobs, row_lock, success, bvars, hvars, jvars, lvars, tvars, mvars>>

(***************************************************************************)
(* Initial states                                                          *)
(***************************************************************************)
\* send_to_groups is not running: no arguments
NoPayload == [photo_url |-> FALSE, caption |-> FALSE, text |-> FALSE]

EmptyResults == [total |-> 0, success |-> 0, failed |-> <<>>, sent_to |-> <<>>]

QInit ==
    /\ \E seed \in [JobIds -> JobSeeds] :
          jobs = [j \in JobIds |-> JobRow(j, seed[j].shape, seed[j].bot_token)]
    /\ row_lock = [j \in JobIds |-> None]
    /\ pc = [c \in Consumers |-> "idle"]
    /\ job_to_process = [c \in Consumers |-> NoJob]
    /\ success = [c \in Consumers |-> FALSE]

\* no broadcast is running
BWorkersIdle ==
    /\ bpc = [w \in Workers |-> "idle"]
    /\ bgroups = [w \in Workers |-> <<>>]
    /\ bidx = [w \in Workers |-> 0]
    /\ buser = [w \in Workers |-> None]
    /\ claim_result = [w \in Workers |-> NoClaim]
    /\ slot_read = [w \in Workers |-> NoneId]
    /\ response = [w \in Workers |-> NoResponse]
    /\ failure_count = [w \in Workers |-> 0]
    /\ results = [w \in Workers |-> EmptyResults]
    /\ calls = [w \in Workers |-> <<>>]
    /\ delivered = [w \in Workers |-> {}]
    /\ payload = [w \in Workers |-> NoPayload]
    /\ text_tags = [w \in Workers |-> {}]
    /\ sent_tags = [w \in Workers |-> <<>>]

BQuiet ==
    /\ now = 0
    /\ managed_groups = [g \in Groups |-> GroupRow(TRUE)]
    /\ slots = [k \in Groups \X Usernames |-> NoSlot]
    /\ streak = [g \in Groups |-> 0]
    /\ last_claim = [k \in Groups \X Usernames |-> NoneId]
    /\ BWorkersIdle

\* get_insta_link found no row for the username
NoLinkRecord ==
    [exists |-> FALSE, n_links |-> 0, last_used_link_index |-> NoneId,
     n_images |-> 0, last_used_image_index |-> NoneId]

\* an insta_links row: monetized_url holds n links, last_used_link_index is last
\* (NoneId for NULL), imgbb_url holds m images and no image was used yet
LinkRecord(n, last, m) ==
    [exists |-> TRUE, n_links |-> n, last_used_link_index |-> last,
     n_images |-> m, last_used_image_index |-> NoneId]

\* no send_to_groups job is being handled
HWorkersIdle ==
    /\ hpc = [w \in Workers |-> "idle"]
    /\ h_user = [w \in Workers |-> None]
    /\ h_details = [w \in Workers |-> NoLinkRecord]
    /\ watch_link = [w \in Workers |-> NoneId]
    /\ outcome = [w \in Workers |-> FALSE]
    /\ attempts = 0
    /\ link_log = <<>>

HQuiet ==
    /\ insta_links = [u \in Usernames |-> NoLinkRecord]
    /\ HWorkersIdle

\* no join request was ever handled
JQuiet ==
    /\ user_groups = [u \in Users |-> NoneId]
    /\ join_requests = [k \in Users \X Groups |-> <<>>]
    /\ approve_log = [j \in JobIds |-> <<>>]

\* no consumer was interrupted and none polled in run-once mode
LQuiet ==
    /\ cancel_requested = [c \in Consumers |-> FALSE]
    /\ run_once_retries = [c \in Consumers |-> 0]
    /\ dispatched = [j \in JobIds |-> 0]

\* test_db_logic is not running
TQuiet ==
    /\ tpc = "off"
    /\ msg_id_1 = NoneId
    /\ run_1 = NoClaim
    /\ saved_msg_id = NoneId
    /\ run_2 = NoClaim

Init == QInit /\ BQuiet /\ HQuiet /\ JQuiet /\ LQuiet /\ TQuiet

Next ==
    \E c \in Consumers :
        \/ Select(c)
        \/ Wake(c)
        \/ ClaimCommit(c)
        \/ ClaimError(c)
        \/ Process(c)
        \/ Finalize(c)
        \/ FinalizeError(c)
        \/ Backoff(c)

Spec == Init /\ [][Next]_vars

(***************************************************************************)
(* Broadcast engine: GroupMessageSender.send_to_groups, statement by       *)
(* statement. Every store call is its own transaction.                     *)
(***************************************************************************)
CurGroup(w) == bgroups[w][bidx[w]].group_id

CurKey(w) == <<CurGroup(w), buser[w]>>

\* "continue", or the end of the loop body: on to the next group
Advance(w, to) ==
    /\ bidx' = [bidx EXCEPT ![w] = @ + 1]
    /\ bpc' = [bpc EXCEPT ![w] = to]
    /\ claim_result' = [claim_result EXCEPT ![w] = NoClaim]
    /\ slot_read' = [slot_read EXCEPT ![w] = NoneId]
    /\ response' = [response EXCEPT ![w] = NoResponse]
    /\ failure_count' = [failure_count EXCEPT ![w] = 0]

\* "if not self.db.claim_notification_slot(...)": the test is on the returned tuple
ClaimRefused(t) == ~TruthyTuple(t)

\* the arguments of a broadcast that has a photo and a caption (and a text)
PhotoCaption == [photo_url |-> TRUE, caption |-> TRUE, text |-> TRUE]

\* send_to_groups(photo_url, caption, text, ..., instagram_username):
\* groups = self.db.get_active_managed_groups(); results = {...}
StartWith(w, u, p) ==
    /\ bpc[w] = "idle"
    /\ payload' = [payload EXCEPT ![w] = p]
    /\ text_tags' = [text_tags EXCEPT ![w] = {}]
    /\ sent_tags' = [sent_tags EXCEPT ![w] = <<>>]
    /\ bgroups' = [bgroups EXCEPT ![w] = GetActiveManagedGroups]
    /\ results' = [results EXCEPT ![w] =
          [EmptyResults EXCEPT !.total = Len(GetActiveManagedGroups)]]
    /\ bidx' = [bidx EXCEPT ![w] = 1]
    /\ buser' = [buser EXCEPT ![w] = u]
    /\ calls' = [calls EXCEPT ![w] = <<>>]
    /\ delivered' = [delivered EXCEPT ![w] = {}]
    /\ bpc' = [bpc EXCEPT ![w] = "loop"]
    /\ UNCHANGED <<now, managed_groups, slots, claim_result, slot_read, response,
                   failure_count, streak, last_claim, qvars, hvars, jvars, lvars, tvars>>

\* a broadcast with a photo and a caption
Start(w, u) == StartWith(w, u, PhotoCaption)

\* debug_code = self._generate_debug_code(); "if caption: caption_with_debug = ..."
\* builds a fresh string, "elif text: text = f'{text}\n\n[{debug_code}]'" rebinds
\* the local text.  The tag of an attempt is the attempt's position in the list.
TaggedText(p, tags, tag) == IF ~p.caption /\ p.text THEN tags \cup {tag} ELSE tags

\* send_photo(caption = caption_with_debug if caption else debug_code), or
\* send_message(text = text): the debug tags inside the message that goes out
MessageTags(p, tags, tag) == IF p.photo_url THEN {tag} ELSE tags

\* the loop without the final_message_allowed test
NextGroupIgnoresFlag(w) ==
    /\ bpc[w] = "loop"
    /\ IF bidx[w] > Len(bgroups[w])
       THEN /\ bpc' = [bpc EXCEPT ![w] = "done"]
            /\ UNCHANGED <<bidx, text_tags>>
       ELSE /\ bpc' = [bpc EXCEPT ![w] = IF buser[w] # None THEN "slot_select" ELSE "send"]
            /\ text_tags' = [text_tags EXCEPT ![w] = TaggedText(payload[w], @, bidx[w])]
            /\ UNCHANGED bidx
    /\ UNCHANGED <<now, managed_groups, slots, bgroups, buser, claim_result, slot_read,
                   response, failure_count, results, calls, streak, last_claim, delivered,
                   payload, sent_tags, qvars, hvars, jvars, lvars, tvars>>

\* for group in groups: the final_message_allowed test, the debug tag, then the slot
\* claim or the send
NextGroup(w) ==
    /\ bpc[w] = "loop"
    /\ IF bidx[w] > Len(bgroups[w])
       THEN /\ bpc' = [bpc EXCEPT ![w] = "done"]
            /\ UNCHANGED <<bidx, text_tags>>
       ELSE IF ~bgroups[w][bidx[w]].final_message_allowed
       THEN /\ bidx' = [bidx EXCEPT ![w] = @ + 1]
            /\ UNCHANGED <<bpc, text_tags>>
       ELSE /\ bpc' = [bpc EXCEPT ![w] = IF buser[w] # None THEN "slot_select" ELSE "send"]
            /\ text_tags' = [text_tags EXCEPT ![w] = TaggedText(payload[w], @, bidx[w])]
            /\ UNCHANGED bidx
    /\ UNCHANGED <<now, managed_groups, slots, bgroups, buser, claim_result, slot_read,
                   response, failure_count, results, calls, streak, last_claim, delivered,
                   payload, sent_tags, qvars, hvars, jvars, lvars, tvars>>

\* claim_notification_slot, the SELECT and the 15-second test
SlotSelectRefreshes(w) ==
    /\ bpc[w] = "slot_select"
    /\ LET row == slots[CurKey(w)]
       IN /\ slot_read' = [slot_read EXCEPT ![w] = CurrentMessageId(row)]
          /\ IF row # NoSlot /\ SlotLocked(row, now)
             THEN /\ claim_result' = [claim_result EXCEPT ![w] = <<FALSE, NoneId>>]
                  /\ slots' = [slots EXCEPT ![CurKey(w)] = ClaimUpsert(@, now)]
                  /\ bpc' = [bpc EXCEPT ![w] = "claim_checked"]
             ELSE /\ bpc' = [bpc EXCEPT ![w] = "slot_upsert"]
                  /\ UNCHANGED <<claim_result, slots>>
    /\ UNCHANGED <<now, managed_groups, bgroups, bidx, buser, response,
                   failure_count, results, calls, streak, last_claim, delivered, qvars, hvars, jvars, lvars, tvars, mvars>>

SlotSelect(w) ==
    /\ bpc[w] = "slot_select"
    /\ LET row == slots[CurKey(w)]
       IN /\ slot_read' = [slot_read EXCEPT ![w] = CurrentMessageId(row)]
          /\ IF row # NoSlot /\ SlotLocked(row, now)
             THEN /\ claim_result' = [claim_result EXCEPT ![w] = <<FALSE, NoneId>>]
                  /\ bpc' = [bpc EXCEPT ![w] = "claim_checked"]
             ELSE /\ bpc' = [bpc EXCEPT ![w] = "slot_upsert"]
                  /\ UNCHANGED claim_result
    /\ UNCHANGED <<now, managed_groups, slots, bgroups, bidx, buser, response,
                   failure_count, results, calls, streak, last_claim, delivered, qvars, hvars, jvars, lvars, tvars, mvars>>

\* claim_notification_slot, the upsert, commit and "return True, current_message_id"
SlotUpsertRechecks(w) ==
    /\ bpc[w] = "slot_upsert"
    /\ LET row == slots[CurKey(w)]
           locked == row # NoSlot /\ SlotLocked(row, now)
       IN /\ slots' = [slots EXCEPT ![CurKey(w)] = IF locked THEN @ ELSE ClaimUpsert(@, now)]
          /\ claim_result' = [claim_result EXCEPT ![w] =
                IF locked THEN <<FALSE, NoneId>> ELSE <<TRUE, slot_read[w]>>]
          /\ last_claim' = [last_claim EXCEPT ![CurKey(w)] = IF locked THEN @ ELSE now]
    /\ bpc' = [bpc EXCEPT ![w] = "claim_checked"]
    /\ UNCHANGED <<now, managed_groups, bgroups, bidx, buser, slot_read, response,
                   failure_count, results, calls, streak, delivered, qvars, hvars, jvars, lvars, tvars, mvars>>

SlotUpsert(w) ==
    /\ bpc[w] = "slot_upsert"
    /\ slots' = [slots EXCEPT ![CurKey(w)] = ClaimUpsert(@, now)]
    /\ claim_result' = [claim_result EXCEPT ![w] = <<TRUE, slot_read[w]>>]
    /\ last_claim' = [last_claim EXCEPT ![CurKey(w)] = now]
    /\ bpc' = [bpc EXCEPT ![w] = "claim_checked"]
    /\ UNCHANGED <<now, managed_groups, bgroups, bidx, buser, slot_read, response,
                   failure_count, results, calls, streak, delivered, qvars, hvars, jvars, lvars, tvars, mvars>>

\* the loop with a failed delete_message ending the attempt as a failure
CheckClaimStopsOnFailedDelete(w) ==
    /\ bpc[w] = "claim_checked"
    /\ IF ClaimRefused(claim_result[w])
       THEN /\ Advance(w, "loop")
            /\ UNCHANGED <<calls, results>>
       ELSE IF TruthyId(GetLastNotification(slots[CurKey(w)]))
       THEN \E ok \in BOOLEAN :
               /\ calls' = [calls EXCEPT ![w] = Append(@, <<"delete", CurGroup(w), ok>>)]
               /\ IF ok
                  THEN /\ bpc' = [bpc EXCEPT ![w] = "send"]
                       /\ UNCHANGED <<bidx, claim_result, slot_read, response,
                                      failure_count, results>>
                  ELSE /\ results' = [results EXCEPT ![w].failed = Append(@, CurGroup(w))]
                       /\ Advance(w, "loop")
       ELSE /\ bpc' = [bpc EXCEPT ![w] = "send"]
            /\ UNCHANGED <<calls, bidx, claim_result, slot_read, response,
                           failure_count, results>>
    /\ UNCHANGED <<now, managed_groups, slots, bgroups, buser, streak,
                   last_claim, delivered, qvars, hvars, jvars, lvars, tvars, mvars>>

\* the test of the claim, then last_msg_id = get_last_notification(...) and, if
\* last_msg_id, delete_message: its result (ok) is dropped, an exception is logged
CheckClaim(w) ==
    /\ bpc[w] = "claim_checked"
    /\ IF ClaimRefused(claim_result[w])
       THEN /\ Advance(w, "loop")
            /\ UNCHANGED calls
       ELSE /\ IF TruthyId(GetLastNotification(slots[CurKey(w)]))
               THEN \E ok \in BOOLEAN :
                       calls' = [calls EXCEPT ![w] = Append(@, <<"delete", CurGroup(w), ok>>)]
               ELSE UNCHANGED calls
            /\ bpc' = [bpc EXCEPT ![w] = "send"]
            /\ UNCHANGED <<bidx, claim_result, slot_read, response, failure_count>>
    /\ UNCHANGED <<now, managed_groups, slots, bgroups, buser, results, streak,
                   last_claim, delivered, qvars, hvars, jvars, lvars, tvars, mvars>>

\* self.api.send_photo / send_message and the test of response.get("ok")
Send(w) ==
    /\ bpc[w] = "send"
    /\ \E r \in Responses :
          /\ response' = [response EXCEPT ![w] = r]
          /\ streak' = [streak EXCEPT ![CurGroup(w)] =
                IF r.ok THEN 0 ELSE IF r.error \in ForbiddenClass THEN @ ELSE @ + 1]
          /\ bpc' = [bpc EXCEPT ![w] =
                IF ~r.ok THEN "failed" ELSE IF buser[w] # None THEN "save" ELSE "reset"]
          /\ delivered' = [delivered EXCEPT ![w] = IF r.ok THEN @ \cup {CurGroup(w)} ELSE @]
    /\ calls' = [calls EXCEPT ![w] = Append(@, <<"send", CurGroup(w)>>)]
    /\ sent_tags' = [sent_tags EXCEPT ![w] =
          Append(@, [tag |-> bidx[w],
                     tags |-> MessageTags(payload[w], text_tags[w], bidx[w])])]
    /\ UNCHANGED <<now, managed_groups, slots, bgroups, bidx, buser, claim_result,
                   slot_read, failure_count, results, last_claim, payload, text_tags,
                   qvars, hvars, jvars, lvars, tvars>>

\* self.db.save_notification(group_id, instagram_username, message_id)
SaveNotification(w) ==
    /\ bpc[w] = "save"
    /\ slots' = [slots EXCEPT ![CurKey(w)] = SaveUpsert(@, response[w].message_id, now)]
    /\ bpc' = [bpc EXCEPT ![w] = "reset"]
    /\ UNCHANGED <<now, managed_groups, bgroups, bidx, buser, claim_result, slot_read,
                   response, failure_count, results, calls, streak, last_claim, delivered, qvars, hvars, jvars, lvars, tvars, mvars>>

\* self.db.reset_failure_count(group_id); results["success"] += 1; sent_to.append
ResetFailure(w) ==
    /\ bpc[w] = "reset"
    /\ managed_groups' = [managed_groups EXCEPT ![CurGroup(w)].consecutive_failures = 0]
    /\ results' = [results EXCEPT ![w].success = @ + 1,
                                  ![w].sent_to = Append(@, CurGroup(w))]
    /\ bpc' = [bpc EXCEPT ![w] = "sleep"]
    /\ UNCHANGED <<now, slots, bgroups, bidx, buser, claim_result, slot_read, response,
                   failure_count, calls, streak, last_claim, delivered, qvars, hvars, jvars, lvars, tvars, mvars>>

\* except-branch: a critical error deactivates and continues; any other error
\* goes through increment_failure_count
OnFailure(w) ==
    /\ bpc[w] = "failed"
    /\ IF IsCritical(response[w].error)
       THEN /\ managed_groups' = [managed_groups EXCEPT ![CurGroup(w)] = Deactivated(@)]
            /\ results' = [results EXCEPT ![w].failed = Append(@, CurGroup(w))]
            /\ Advance(w, "loop")
       ELSE /\ managed_groups' = [managed_groups EXCEPT
                  ![CurGroup(w)].consecutive_failures = Incremented(@)]
            /\ failure_count' = [failure_count EXCEPT ![w] =
                  Incremented(managed_groups[CurGroup(w)].consecutive_failures)]
            /\ bpc' = [bpc EXCEPT ![w] = "threshold"]
            /\ UNCHANGED <<bidx, claim_result, slot_read, response, results>>
    /\ UNCHANGED <<now, slots, bgroups, buser, calls, streak, last_claim, delivered, qvars, hvars, jvars, lvars, tvars, mvars>>

\* if failure_count >= self.max_consecutive_failures: deactivate_group;
\* results["failed"].append
Threshold(w) ==
    /\ bpc[w] = "threshold"
    /\ managed_groups' = [managed_groups EXCEPT ![CurGroup(w)] =
          IF ReachedThreshold(failure_count[w]) THEN Deactivated(@) ELSE @]
    /\ results' = [results EXCEPT ![w].failed = Append(@, CurGroup(w))]
    /\ bpc' = [bpc EXCEPT ![w] = "sleep"]
    /\ UNCHANGED <<now, slots, bgroups, bidx, buser, claim_result, slot_read, response,
                   failure_count, calls, streak, last_claim, delivered, qvars, hvars, jvars, lvars, tvars, mvars>>

\* time.sleep(3), then the next group
Sleep(w) ==
    /\ bpc[w] = "sleep"
    /\ Advance(w, "loop")
    /\ UNCHANGED <<now, managed_groups, slots, bgroups, buser, results, calls, streak,
                   last_claim, delivered, qvars, hvars, jvars, lvars, tvars, mvars>>

\* return results
Return(w) ==
    /\ bpc[w] = "done"
    /\ bpc' = [bpc EXCEPT ![w] = "idle"]
    /\ bgroups' = [bgroups EXCEPT ![w] = <<>>]
    /\ bidx' = [bidx EXCEPT ![w] = 0]
    /\ buser' = [buser EXCEPT ![w] = None]
    /\ results' = [results EXCEPT ![w] = EmptyResults]
    /\ calls' = [calls EXCEPT ![w] = <<>>]
    /\ delivered' = [delivered EXCEPT ![w] = {}]
    /\ payload' = [payload EXCEPT ![w] = NoPayload]
    /\ text_tags' = [text_tags EXCEPT ![w] = {}]
    /\ sent_tags' = [sent_tags EXCEPT ![w] = <<>>]
    /\ UNCHANGED <<now, managed_groups, slots, claim_result, slot_read, response,
                   failure_count, streak, last_claim, qvars, hvars, jvars, lvars, tvars>>

\* the clock
Tick ==
    /\ now + TickSeconds <= MaxTime
    /\ now' = now + TickSeconds
    /\ UNCHANGED <<managed_groups, slots, bpc, bgroups, bidx, buser, claim_result,
                   slot_read, response, failure_count, results, calls, streak,
                   last_claim, delivered, qvars, hvars, jvars, lvars, tvars, mvars>>

\* a reactivating upsert that also clears the failure counter
ReactivateResetsCount(g) ==
    /\ managed_groups[g].consecutive_failures <= max_consecutive_failures
    /\ managed_groups' = [managed_groups EXCEPT ![g].is_active = TRUE,
                                                ![g].final_message_allowed = TRUE,
                                                ![g].consecutive_failures = 0]
    /\ UNCHANGED <<now, slots, bpc, bgroups, bidx, buser, claim_result, slot_read,
                   response, failure_count, results, calls, streak, last_claim, delivered,
                   qvars, hvars, jvars, lvars, tvars, mvars>>

\* upsert_managed_group on an existing row (a register_group job): is_active = true,
\* final_message_allowed = COALESCE(EXCLUDED.final_message_allowed, ..) = true
Reactivate(g) ==
    /\ managed_groups[g].consecutive_failures <= max_consecutive_failures
    /\ managed_groups' = [managed_groups EXCEPT ![g].is_active = TRUE,
                                                ![g].final_message_allowed = TRUE]
    /\ UNCHANGED <<now, slots, bpc, bgroups, bidx, buser, claim_result, slot_read,
                   response, failure_count, results, calls, streak, last_claim, delivered, qvars, hvars, jvars, lvars, tvars, mvars>>

\* the jobs table is left alone
QQuiet ==
    /\ jobs = [j \in JobIds |-> JobRow(j, [job_type |-> "send_to_groups", payload |-> "json"],
                                       TGMS_BOT_TOKEN)]
    /\ row_lock = [j \in JobIds |-> None]
    /\ pc = [c \in Consumers |-> "idle"]
    /\ job_to_process = [c \in Consumers |-> NoJob]
    /\ success = [c \in Consumers |-> FALSE]

BInit ==
    /\ now = 0
    /\ \E allowed \in [Groups -> BOOLEAN] :
          managed_groups = [g \in Groups |-> GroupRow(allowed[g])]
    /\ slots = [k \in Groups \X Usernames |-> NoSlot]
    /\ streak = [g \in Groups |-> 0]
    /\ last_claim = [k \in Groups \X Usernames |-> NoneId]
    /\ BWorkersIdle

InitB == QQuiet /\ BInit /\ HQuiet /\ JQuiet /\ LQuiet /\ TQuiet

\* one run of send_to_groups
Broadcast(w) ==
    \/ \E u \in Usernames \cup {None} : Start(w, u)
    \/ NextGroup(w)
    \/ SlotSelect(w)
    \/ SlotUpsert(w)
    \/ CheckClaim(w)
    \/ Send(w)
    \/ SaveNotification(w)
    \/ ResetFailure(w)
    \/ OnFailure(w)
    \/ Threshold(w)
    \/ Sleep(w)
    \/ Return(w)

NextSeq ==
    \/ \E g \in Groups : Reactivate(g)
    \/ Broadcast("w1")

\* broadcasts of one engine, one after the other, and register_group upserts
SpecSeq == InitB /\ [][NextSeq]_vars

(***************************************************************************)
(* The slot operations called directly, as repro_db.py calls them           *)
(***************************************************************************)
\* the key the direct calls work on
ApiGroup == 1

\* db.claim_notification_slot(group_id, username, debug_code) is entered
CallClaim(w, u) ==
    /\ bpc[w] = "idle"
    /\ bgroups' = [bgroups EXCEPT ![w] =
          <<[group_id |-> ApiGroup, final_message_allowed |-> TRUE]>>]
    /\ bidx' = [bidx EXCEPT ![w] = 1]
    /\ buser' = [buser EXCEPT ![w] = u]
    /\ bpc' = [bpc EXCEPT ![w] = "slot_select"]
    /\ UNCHANGED <<now, managed_groups, slots, claim_result, slot_read, response,
                   failure_count, results, calls, streak, last_claim, delivered, qvars, hvars, jvars, lvars, tvars, mvars>>

\* claimed, msg_id = db.claim_notification_slot(...): the caller has the tuple
ClaimReturn(w) ==
    /\ bpc[w] = "claim_checked"
    /\ bpc' = [bpc EXCEPT ![w] = "idle"]
    /\ bgroups' = [bgroups EXCEPT ![w] = <<>>]
    /\ bidx' = [bidx EXCEPT ![w] = 0]
    /\ buser' = [buser EXCEPT ![w] = None]
    /\ claim_result' = [claim_result EXCEPT ![w] = NoClaim]
    /\ slot_read' = [slot_read EXCEPT ![w] = NoneId]
    /\ UNCHANGED <<now, managed_groups, slots, response, failure_count, results, calls,
                   streak, last_claim, delivered, qvars, hvars, jvars, lvars, tvars, mvars>>

\* db.save_notification(group_id, username, msg_id)
CallSave(w, u, m) ==
    /\ bpc[w] = "idle"
    /\ slots' = [slots EXCEPT ![<<ApiGroup, u>>] = SaveUpsert(@, m, now)]
    /\ UNCHANGED <<now, managed_groups, bpc, bgroups, bidx, buser, claim_result,
                   slot_read, response, failure_count, results, calls, streak,
                   last_claim, delivered, qvars, hvars, jvars, lvars, tvars, mvars>>

NextSlot ==
    \/ Tick
    \/ \E w \in Workers :
          \/ \E u \in Usernames : CallClaim(w, u)
          \/ SlotSelect(w)
          \/ SlotUpsert(w)
          \/ ClaimReturn(w)
          \/ \E u \in Usernames, m \in 1..MaxMsgId : CallSave(w, u, m)

InitSlot == QQuiet /\ BQuiet /\ HQuiet /\ JQuiet /\ LQuiet /\ TQuiet

\* concurrent callers of claim_notification_slot and save_notification, with the clock
SpecSlot == InitSlot /\ [][NextSlot]_vars

(***************************************************************************)
(* process_tgms_job, the send_to_groups branch, statement by statement.     *)
(* Each worker process has its own GroupMessageSender; the handler of       *)
(* worker w drives the broadcast of w.                                      *)
(***************************************************************************)
\* watch_link was never assigned: reading it raises UnboundLocalError
Unbound == -2

\* watch_link = insta_link_details.get('general_link') or insta_link_details.get('link')
GeneralLink == -3

\* the longest imgbb_url list of an insta_links record
NImages == 1

\* next_link_index = (last_link_index + 1) % len(link_urls), None read as -1
NextLinkIndexStays(last, n) == (IF last = NoneId THEN 0 ELSE last) % n

NextLinkIndex(last, n) == ((IF last = NoneId THEN -1 ELSE last) + 1) % n

\* return results['success'] > 0
HandlerSuccessOnTotal(res) == res.total > 0

HandlerSuccess(res) == res.success > 0

\* a send_to_groups job is dispatched: the payload is parsed and the username is
\* extracted from its text (None when the pattern does not match)
HStart(w, u) ==
    /\ hpc[w] = "idle"
    /\ attempts < MaxAttempts
    /\ attempts' = attempts + 1
    /\ h_user' = [h_user EXCEPT ![w] = u]
    /\ watch_link' = [watch_link EXCEPT ![w] = Unbound]
    /\ hpc' = [hpc EXCEPT ![w] = IF u # None THEN "get_link" ELSE "call_send"]
    /\ UNCHANGED <<insta_links, h_details, outcome, link_log, bvars, qvars, jvars, lvars, tvars, mvars>>

\* insta_link_details = db_manager.get_insta_link(username)
GetInstaLink(w) ==
    /\ hpc[w] = "get_link"
    /\ h_details' = [h_details EXCEPT ![w] = insta_links[h_user[w]]]
    /\ hpc' = [hpc EXCEPT ![w] =
          IF insta_links[h_user[w]].exists THEN "cycle" ELSE "call_send"]
    /\ UNCHANGED <<insta_links, h_user, watch_link, outcome, attempts, link_log,
                   bvars, qvars, jvars, lvars, tvars, mvars>>

\* link cycling: the next index from the record as it was read, then
\* update_last_used_link_index; without monetized links the general link
CycleLink(w) ==
    /\ hpc[w] = "cycle"
    /\ LET n == h_details[w].n_links
           next == NextLinkIndex(h_details[w].last_used_link_index, n)
       IN IF n > 0
          THEN /\ watch_link' = [watch_link EXCEPT ![w] = next]
               /\ insta_links' = [insta_links EXCEPT
                     ![h_user[w]].last_used_link_index = next]
               /\ link_log' = Append(link_log, next)
          ELSE /\ watch_link' = [watch_link EXCEPT ![w] = GeneralLink]
               /\ UNCHANGED <<insta_links, link_log>>
    /\ hpc' = [hpc EXCEPT ![w] = "cycle_image"]
    /\ UNCHANGED <<h_user, h_details, outcome, attempts, bvars, qvars, jvars, lvars, tvars, mvars>>

\* image cycling: next_index = (last_index + 1) % len(image_urls), then
\* update_last_used_image_index; without images the payload's photo_url
CycleImage(w) ==
    /\ hpc[w] = "cycle_image"
    /\ LET m == h_details[w].n_images
       IN insta_links' = [insta_links EXCEPT ![h_user[w]].last_used_image_index =
              IF m > 0 THEN NextLinkIndex(h_details[w].last_used_image_index, m) ELSE @]
    /\ hpc' = [hpc EXCEPT ![w] = "call_send"]
    /\ UNCHANGED <<h_user, h_details, watch_link, outcome, attempts, link_log,
                   bvars, qvars, jvars, lvars, tvars, mvars>>

\* group_sender.send_to_groups(..., watch_link=watch_link, instagram_username=username)
\* with watch_link unbound: the except-branch of process_tgms_job returns False
HRaise(w) ==
    /\ hpc[w] = "call_send"
    /\ watch_link[w] = Unbound
    /\ outcome' = [outcome EXCEPT ![w] = FALSE]
    /\ hpc' = [hpc EXCEPT ![w] = "returned"]
    /\ UNCHANGED <<insta_links, h_user, h_details, watch_link, attempts, link_log,
                   bvars, qvars, jvars, lvars, tvars, mvars>>

\* the call of send_to_groups
HSend(w) ==
    /\ hpc[w] = "call_send"
    /\ watch_link[w] # Unbound
    /\ Start(w, h_user[w])

\* send_to_groups returns its results; return results['success'] > 0
HReturn(w) ==
    /\ hpc[w] = "call_send"
    /\ bpc[w] = "done"
    /\ outcome' = [outcome EXCEPT ![w] = HandlerSuccess(results[w])]
    /\ hpc' = [hpc EXCEPT ![w] = "returned"]
    /\ bpc' = [bpc EXCEPT ![w] = "idle"]
    /\ bgroups' = [bgroups EXCEPT ![w] = <<>>]
    /\ bidx' = [bidx EXCEPT ![w] = 0]
    /\ buser' = [buser EXCEPT ![w] = None]
    /\ results' = [results EXCEPT ![w] = EmptyResults]
    /\ calls' = [calls EXCEPT ![w] = <<>>]
    /\ payload' = [payload EXCEPT ![w] = NoPayload]
    /\ text_tags' = [text_tags EXCEPT ![w] = {}]
    /\ sent_tags' = [sent_tags EXCEPT ![w] = <<>>]
    /\ UNCHANGED <<now, managed_groups, slots, claim_result, slot_read, response,
                   failure_count, streak, last_claim, delivered,
                   insta_links, h_user, h_details, watch_link, attempts, link_log,
                   qvars, jvars, lvars, tvars>>

\* worker_main_loop has the handler's result and finalizes the job
HFinish(w) ==
    /\ hpc[w] = "returned"
    /\ hpc' = [hpc EXCEPT ![w] = "idle"]
    /\ h_user' = [h_user EXCEPT ![w] = None]
    /\ h_details' = [h_details EXCEPT ![w] = NoLinkRecord]
    /\ watch_link' = [watch_link EXCEPT ![w] = NoneId]
    /\ outcome' = [outcome EXCEPT ![w] = FALSE]
    /\ delivered' = [delivered EXCEPT ![w] = {}]
    /\ UNCHANGED <<insta_links, attempts, link_log,
                   now, managed_groups, slots, bpc, bgroups, bidx, buser, claim_result,
                   slot_read, response, failure_count, results, calls, streak,
                   last_claim, qvars, jvars, lvars, tvars, mvars>>

\* the records get_insta_link can find for a username
LinkRecords ==
    {NoLinkRecord}
    \cup { LinkRecord(n, last, m) :
               n \in 0..NLinks, last \in {NoneId} \cup (0..(NLinks - 1)), m \in 0..NImages }

HInit ==
    /\ insta_links \in [Usernames -> LinkRecords]
    /\ HWorkersIdle

\* the steps of a run of the handler by worker w, once dispatched
HandleSteps(w) ==
    \/ GetInstaLink(w)
    \/ CycleLink(w)
    \/ CycleImage(w)
    \/ HRaise(w)
    \/ HSend(w)
    \/ NextGroup(w)
    \/ SlotSelect(w)
    \/ SlotUpsert(w)
    \/ CheckClaim(w)
    \/ Send(w)
    \/ SaveNotification(w)
    \/ ResetFailure(w)
    \/ OnFailure(w)
    \/ Threshold(w)
    \/ Sleep(w)
    \/ HReturn(w)
    \/ HFinish(w)

\* runs of the handler by worker w
HandleSend(w) ==
    \/ \E u \in Usernames \cup {None} : HStart(w, u)
    \/ HandleSteps(w)

InitJob == QQuiet /\ BInit /\ HInit /\ JQuiet /\ LQuiet /\ TQuiet

NextJob == HandleSend("w1")

\* send_to_groups jobs handled by one worker, one after the other
SpecJob == InitJob /\ [][NextJob]_vars

\* the recipient has a record with NLinks links, none used yet, and no images
HInitFresh ==
    /\ insta_links = [u \in Usernames |-> LinkRecord(NLinks, NoneId, 0)]
    /\ HWorkersIdle

InitPar == QQuiet /\ BQuiet /\ HInitFresh /\ JQuiet /\ LQuiet /\ TQuiet

\* handler runs the specification of concurrent workers follows
ParAttempts == 2

\* a dispatch while the workers have handled fewer than ParAttempts jobs
HStartPar(w, u) ==
    /\ attempts < ParAttempts
    /\ HStart(w, u)

NextPar ==
    \E w \in Workers :
        \/ \E u \in Usernames \cup {None} : HStartPar(w, u)
        \/ HandleSteps(w)

\* send_to_groups jobs handled by two workers at once
SpecPar == InitPar /\ [][NextPar]_vars

(***************************************************************************)
(* Join requests: the process_join_request branch of process_tgms_job and   *)
(* JoinRequestHandler.process_join_request, run by the consumers of the     *)
(* jobs table, statement by statement.                                      *)
(***************************************************************************)
\* a queued process_join_request job: payload.chat_join_request names the chat
\* and the user
JoinJobRow(j, u, chat) ==
    [job_id |-> j, status |-> "pending", bot_token |-> TGMS_BOT_TOKEN,
     job_type |-> "process_join_request", payload |-> "json",
     retries |-> 0, created_at |-> j, user_id |-> u, chat_id |-> chat]

\* the join_requests rows of the job's (user, chat), oldest first
JoinKey(job) == <<job.user_id, job.chat_id>>

\* the row with MAX(created_at)
Latest(rows) == rows[Len(rows)]

\* user_in_managed_group: SELECT groups ... WHERE id = :user_id AND groups IS NOT NULL
UserInManagedGroup(u) == user_groups[u] # NoneId

\* insert_join_request: INSERT ... 'pending' ON CONFLICT (user_id, chat_id, status) DO NOTHING
InsertPending(rows) ==
    IF \E i \in 1..Len(rows) : rows[i] = "pending" THEN rows ELSE Append(rows, "pending")

\* update_join_request_status_by_user_chat: the latest row gets the status; when
\* an older row of the (user, chat) already has it, the unique constraint on
\* (user_id, chat_id, status) rejects the update and the handler's
\* "except Exception: pass" drops the error
UpdateStatus(rows, status) ==
    IF rows = <<>> THEN rows
    ELSE IF \E i \in 1..(Len(rows) - 1) : rows[i] = status THEN rows
    ELSE [rows EXCEPT ![Len(rows)] = status]

\* the handler recording the request before it looks at the group
JoinDispatchRecordsFirst(c) ==
    /\ pc[c] = "claimed"
    /\ job_to_process[c].job_type = "process_join_request"
    /\ job_to_process[c].chat_id \in DOMAIN managed_groups
    /\ join_requests' = [join_requests EXCEPT ![JoinKey(job_to_process[c])] =
          InsertPending(@)]
    /\ IF managed_groups[job_to_process[c].chat_id].is_active
       THEN /\ pc' = [pc EXCEPT ![c] = "j_member"]
            /\ UNCHANGED success
       ELSE /\ pc' = [pc EXCEPT ![c] = "processed"]
            /\ success' = [success EXCEPT ![c] = FALSE]
    /\ UNCHANGED <<jobs, row_lock, job_to_process, user_groups, approve_log,
                   bvars, hvars, lvars, tvars, mvars>>

\* process_tgms_job reads chat_id and user_id and finds the managed group;
\* process_join_request returns False for an inactive group
JoinDispatch(c) ==
    /\ pc[c] = "claimed"
    /\ job_to_process[c].job_type = "process_join_request"
    /\ job_to_process[c].chat_id \in DOMAIN managed_groups
    /\ IF managed_groups[job_to_process[c].chat_id].is_active
       THEN /\ pc' = [pc EXCEPT ![c] = "j_member"]
            /\ UNCHANGED success
       ELSE /\ pc' = [pc EXCEPT ![c] = "processed"]
            /\ success' = [success EXCEPT ![c] = FALSE]
    /\ UNCHANGED <<jobs, row_lock, job_to_process, bvars, hvars, jvars, lvars, tvars, mvars>>

\* if self.db.user_in_managed_group(user_id)
JoinCheckMember(c) ==
    /\ pc[c] = "j_member"
    /\ pc' = [pc EXCEPT ![c] =
          IF UserInManagedGroup(job_to_process[c].user_id)
          THEN "j_rej_insert" ELSE "j_insert"]
    /\ UNCHANGED <<jobs, row_lock, job_to_process, success, bvars, hvars, jvars, lvars, tvars, mvars>>

\* self.db.insert_join_request(user_id, chat_id, username), on either path
JoinInsert(c) ==
    /\ pc[c] \in {"j_rej_insert", "j_insert"}
    /\ join_requests' = [join_requests EXCEPT ![JoinKey(job_to_process[c])] =
          InsertPending(@)]
    /\ pc' = [pc EXCEPT ![c] = IF pc[c] = "j_insert" THEN "j_approve" ELSE "j_rej_update"]
    /\ UNCHANGED <<jobs, row_lock, job_to_process, success, user_groups, approve_log,
                   bvars, hvars, lvars, tvars, mvars>>

\* update_join_request_status_by_user_chat(.., 'rejected_already_member'); return False
JoinReject(c) ==
    /\ pc[c] = "j_rej_update"
    /\ join_requests' = [join_requests EXCEPT ![JoinKey(job_to_process[c])] =
          UpdateStatus(@, "rejected_already_member")]
    /\ success' = [success EXCEPT ![c] = FALSE]
    /\ pc' = [pc EXCEPT ![c] = "processed"]
    /\ UNCHANGED <<jobs, row_lock, job_to_process, user_groups, approve_log,
                   bvars, hvars, lvars, tvars, mvars>>

\* response = self.api.approve_join_request(chat_id, user_id)
JoinApprove(c) ==
    /\ pc[c] = "j_approve"
    /\ \E ok \in BOOLEAN :
          /\ approve_log' = [approve_log EXCEPT ![job_to_process[c].job_id] =
                Append(@, ok)]
          /\ pc' = [pc EXCEPT ![c] = IF ok THEN "j_user" ELSE "j_failed"]
    /\ UNCHANGED <<jobs, row_lock, job_to_process, success, user_groups, join_requests,
                   bvars, hvars, lvars, tvars, mvars>>

\* self.db.update_user_group(user_id, chat_id, ...)
JoinUpdateUser(c) ==
    /\ pc[c] = "j_user"
    /\ user_groups' = [user_groups EXCEPT ![job_to_process[c].user_id] =
          job_to_process[c].chat_id]
    /\ pc' = [pc EXCEPT ![c] = "j_approved"]
    /\ UNCHANGED <<jobs, row_lock, job_to_process, success, join_requests, approve_log,
                   bvars, hvars, lvars, tvars, mvars>>

\* update_join_request_status_by_user_chat(.., 'approved'); return True
JoinApproved(c) ==
    /\ pc[c] = "j_approved"
    /\ join_requests' = [join_requests EXCEPT ![JoinKey(job_to_process[c])] =
          UpdateStatus(@, "approved")]
    /\ success' = [success EXCEPT ![c] = TRUE]
    /\ pc' = [pc EXCEPT ![c] = "processed"]
    /\ UNCHANGED <<jobs, row_lock, job_to_process, user_groups, approve_log,
                   bvars, hvars, lvars, tvars, mvars>>

\* update_join_request_status_by_user_chat(.., 'failed'); return False
JoinFailed(c) ==
    /\ pc[c] = "j_failed"
    /\ join_requests' = [join_requests EXCEPT ![JoinKey(job_to_process[c])] =
          UpdateStatus(@, "failed")]
    /\ success' = [success EXCEPT ![c] = FALSE]
    /\ pc' = [pc EXCEPT ![c] = "processed"]
    /\ UNCHANGED <<jobs, row_lock, job_to_process, user_groups, approve_log,
                   bvars, hvars, lvars, tvars, mvars>>

\* join requests of the users for managed chats are queued
JQInit ==
    /\ \E u \in [JobIds -> Users], chat \in [JobIds -> Groups] :
          jobs = [j \in JobIds |-> JoinJobRow(j, u[j], chat[j])]
    /\ row_lock = [j \in JobIds |-> None]
    /\ pc = [c \in Consumers |-> "idle"]
    /\ job_to_process = [c \in Consumers |-> NoJob]
    /\ success = [c \in Consumers |-> FALSE]

\* the chats are managed groups, active or deactivated; no broadcast runs
BJoin ==
    /\ now = 0
    /\ \E active \in [Groups -> BOOLEAN] :
          managed_groups = [g \in Groups |-> [GroupRow(TRUE) EXCEPT !.is_active = active[g]]]
    /\ slots = [k \in Groups \X Usernames |-> NoSlot]
    /\ streak = [g \in Groups |-> 0]
    /\ last_claim = [k \in Groups \X Usernames |-> NoneId]
    /\ BWorkersIdle

\* a user is in no managed group yet, or tracked in one
JInit ==
    /\ user_groups \in [Users -> {NoneId} \cup Groups]
    /\ join_requests = [k \in Users \X Groups |-> <<>>]
    /\ approve_log = [j \in JobIds |-> <<>>]

InitJoin == JQInit /\ BJoin /\ HQuiet /\ JInit /\ LQuiet /\ TQuiet

NextJoin ==
    \E c \in Consumers :
        \/ Select(c)
        \/ Wake(c)
        \/ ClaimCommit(c)
        \/ JoinDispatch(c)
        \/ JoinCheckMember(c)
        \/ JoinInsert(c)
        \/ JoinReject(c)
        \/ JoinApprove(c)
        \/ JoinUpdateUser(c)
        \/ JoinApproved(c)
        \/ JoinFailed(c)
        \/ Finalize(c)

\* the consumers of a queue of join-request jobs
SpecJoin == InitJoin /\ [][NextJoin]_vars

(***************************************************************************)
(* repro_db.py, test_db_logic: one caller runs cleanup, claim, save, verify *)
(* and claim again on one key, while the store's clock runs                 *)
(***************************************************************************)
\* the key of the script (group_id, username)
TestKey == <<ApiGroup, "alice">>

\* claim_notification_slot run without another caller in between: what it returns
ClaimResult(row, t) ==
    IF row # NoSlot /\ SlotLocked(row, t) THEN <<FALSE, NoneId>>
    ELSE <<TRUE, CurrentMessageId(row)>>

\* claim_notification_slot run without another caller in between: the row it leaves
ClaimEffect(row, t) ==
    IF row # NoSlot /\ SlotLocked(row, t) THEN row ELSE ClaimUpsert(row, t)

\* 1. Clean up: DELETE FROM live_notification_messages WHERE group_id, username
TCleanup ==
    /\ tpc = "cleanup"
    /\ slots' = [slots EXCEPT ![TestKey] = NoSlot]
    /\ tpc' = "claim1"
    /\ UNCHANGED <<msg_id_1, run_1, saved_msg_id, run_2, now, managed_groups, bpc,
                   bgroups, bidx, buser, claim_result, slot_read, response,
                   failure_count, results, calls, streak, last_claim, delivered,
                   qvars, hvars, jvars, lvars, mvars>>

\* 2. claimed, msg_id = db.claim_notification_slot(group_id, username, debug_code)
TClaim1 ==
    /\ tpc = "claim1"
    /\ run_1' = ClaimResult(slots[TestKey], now)
    /\ slots' = [slots EXCEPT ![TestKey] = ClaimEffect(@, now)]
    /\ last_claim' = [last_claim EXCEPT ![TestKey] =
          IF ClaimResult(slots[TestKey], now)[1] THEN now ELSE @]
    /\ tpc' = "save"
    /\ UNCHANGED <<msg_id_1, saved_msg_id, run_2, now, managed_groups, bpc,
                   bgroups, bidx, buser, claim_result, slot_read, response,
                   failure_count, results, calls, streak, delivered,
                   qvars, hvars, jvars, lvars, mvars>>

\* 4. db.save_notification(group_id, username, msg_id_1)
TSave ==
    /\ tpc = "save"
    /\ slots' = [slots EXCEPT ![TestKey] = SaveUpsert(@, msg_id_1, now)]
    /\ tpc' = "verify"
    /\ UNCHANGED <<msg_id_1, run_1, saved_msg_id, run_2, now, managed_groups, bpc,
                   bgroups, bidx, buser, claim_result, slot_read, response,
                   failure_count, results, calls, streak, last_claim, delivered,
                   qvars, hvars, jvars, lvars, mvars>>

\* 5. saved_msg_id = db.get_last_notification(...); return if it is not msg_id_1
TVerify ==
    /\ tpc = "verify"
    /\ saved_msg_id' = GetLastNotification(slots[TestKey])
    /\ tpc' = IF GetLastNotification(slots[TestKey]) # msg_id_1 THEN "done" ELSE "claim2"
    /\ UNCHANGED <<msg_id_1, run_1, run_2, bvars, qvars, hvars, jvars, lvars, mvars>>

\* 6. claimed, last_msg_id_2 = db.claim_notification_slot(group_id, username, "DBG:TEST2")
TClaim2 ==
    /\ tpc = "claim2"
    /\ run_2' = ClaimResult(slots[TestKey], now)
    /\ slots' = [slots EXCEPT ![TestKey] = ClaimEffect(@, now)]
    /\ last_claim' = [last_claim EXCEPT ![TestKey] =
          IF ClaimResult(slots[TestKey], now)[1] THEN now ELSE @]
    /\ tpc' = "report"
    /\ UNCHANGED <<msg_id_1, run_1, saved_msg_id, now, managed_groups, bpc,
                   bgroups, bidx, buser, claim_result, slot_read, response,
                   failure_count, results, calls, streak, delivered,
                   qvars, hvars, jvars, lvars, mvars>>

\* 7. the script compares last_msg_id_2 with msg_id_1, logs, and cleans up
TReport ==
    /\ tpc = "report"
    /\ slots' = [slots EXCEPT ![TestKey] = NoSlot]
    /\ tpc' = "done"
    /\ UNCHANGED <<msg_id_1, run_1, saved_msg_id, run_2, now, managed_groups, bpc,
                   bgroups, bidx, buser, claim_result, slot_read, response,
                   failure_count, results, calls, streak, last_claim, delivered,
                   qvars, hvars, jvars, lvars, mvars>>

\* the script starts with a message id to save; the key has no row, or a row an
\* earlier run left
TInit ==
    /\ tpc = "cleanup"
    /\ msg_id_1 \in 1..MaxMsgId
    /\ run_1 = NoClaim
    /\ saved_msg_id = NoneId
    /\ run_2 = NoClaim

BRepro ==
    /\ now = 0
    /\ managed_groups = [g \in Groups |-> GroupRow(TRUE)]
    /\ \E row \in {NoSlot} \cup { [created_at |-> 0, message_id |-> m] : m \in 0..MaxMsgId } :
          slots = [k \in Groups \X Usernames |-> IF k = TestKey THEN row ELSE NoSlot]
    /\ streak = [g \in Groups |-> 0]
    /\ last_claim = [k \in Groups \X Usernames |-> NoneId]
    /\ BWorkersIdle

InitRepro == QQuiet /\ BRepro /\ HQuiet /\ JQuiet /\ LQuiet /\ TInit

NextRepro ==
    \/ Tick
    \/ TCleanup
    \/ TClaim1
    \/ TSave
    \/ TVerify
    \/ TClaim2
    \/ TReport

\* one run of test_db_logic, with the clock
SpecRepro == InitRepro /\ [][NextRepro]_vars

(***************************************************************************)
(* The consumer loop's lifecycle: a process that dies, an interrupt of      *)
(* asyncio.run, and run-once mode. All jobs are send_to_groups jobs of the  *)
(* worker's partition.                                                      *)
(***************************************************************************)
InitLoop == QQuiet /\ BQuiet /\ HQuiet /\ JQuiet /\ LQuiet /\ TQuiet

\* what is left of job_to_process when the loop is left at position p: the job
\* whose claim was committed and not finalized (kept as the record of what the
\* consumer had claimed), nothing otherwise
LeftWith(c) ==
    IF pc[c] \in {"claimed", "processed"} THEN job_to_process[c] ELSE NoJob

\* the worker process dies (kill, power loss): the store drops its connection,
\* which rolls back an open transaction and releases its row locks; what was
\* committed stays
CrashRollsBackClaim(c) ==
    /\ pc[c] # "crashed"
    /\ pc' = [pc EXCEPT ![c] = "crashed"]
    /\ row_lock' = [k \in JobIds |-> IF row_lock[k] = c THEN None ELSE row_lock[k]]
    /\ job_to_process' = [job_to_process EXCEPT ![c] = LeftWith(c)]
    /\ jobs' = IF LeftWith(c) # NoJob
               THEN [jobs EXCEPT ![job_to_process[c].job_id].status = "pending"]
               ELSE jobs
    /\ UNCHANGED <<success, bvars, hvars, jvars, lvars, tvars, mvars>>

Crash(c) ==
    /\ pc[c] # "crashed"
    /\ pc' = [pc EXCEPT ![c] = "crashed"]
    /\ row_lock' = [k \in JobIds |-> IF row_lock[k] = c THEN None ELSE row_lock[k]]
    /\ job_to_process' = [job_to_process EXCEPT ![c] = LeftWith(c)]
    /\ UNCHANGED <<jobs, success, bvars, hvars, jvars, lvars, tvars, mvars>>

NextCrash ==
    \E c \in Consumers :
        \/ Select(c)
        \/ Wake(c)
        \/ ClaimCommit(c)
        \/ Process(c)
        \/ Finalize(c)
        \/ Crash(c)

\* consumers that can die at any point of the loop
SpecCrash == InitLoop /\ [][NextCrash]_vars

\* SIGINT while asyncio.run(worker_main_loop(...)) runs. The loop has no stop flag
\* and catches only Exception. What the interpreter does with the signal: it
\* raises KeyboardInterrupt where the loop is (before Python 3.11, or on a second
\* signal), which leaves the loop through "finally: session.close()"; or
\* asyncio.run cancels the loop's task (3.11 and later), and CancelledError is
\* raised at the next await that suspends.
Interrupt(c) ==
    /\ pc[c] # "stopped"
    /\ \/ /\ pc' = [pc EXCEPT ![c] = "stopped"]
          /\ row_lock' = [k \in JobIds |-> IF row_lock[k] = c THEN None ELSE row_lock[k]]
          /\ job_to_process' = [job_to_process EXCEPT ![c] = LeftWith(c)]
          /\ UNCHANGED cancel_requested
       \/ /\ ~cancel_requested[c]
          /\ cancel_requested' = [cancel_requested EXCEPT ![c] = TRUE]
          /\ UNCHANGED <<pc, row_lock, job_to_process>>
    /\ UNCHANGED <<jobs, success, run_once_retries, dispatched, bvars, hvars, jvars,
                   tvars, mvars>>

\* CancelledError at "await asyncio.sleep(POLLING_INTERVAL)": the handlers of the
\* modelled job types never suspend, so the sleep after an empty poll is the
\* loop's only suspension point
Cancelled(c) ==
    /\ pc[c] = "sleeping"
    /\ cancel_requested[c]
    /\ pc' = [pc EXCEPT ![c] = "stopped"]
    /\ UNCHANGED <<jobs, row_lock, job_to_process, success, bvars, hvars, jvars,
                   lvars, tvars, mvars>>

\* the sleep returns: the task was not cancelled
WakeUncancelled(c) ==
    /\ ~cancel_requested[c]
    /\ Wake(c)

NextStop ==
    \E c \in Consumers :
        \/ Select(c)
        \/ WakeUncancelled(c)
        \/ ClaimCommit(c)
        \/ Process(c)
        \/ Finalize(c)
        \/ Interrupt(c)
        \/ Cancelled(c)

\* consumers that can be interrupted at any point of the loop
SpecStop == InitLoop /\ [][NextStop]_vars

\* run_once: "if run_once_retries >= 2: break"
RUN_ONCE_EMPTY_POLLS == 2

\* the SELECT with run_once=True: a row comes back locked; or none does, and the
\* loop breaks once run_once_retries has reached 2, else counts and sleeps a second
SelectOnce(c) ==
    /\ pc[c] = "idle"
    /\ LET j == SelectQuery(c)
       IN IF j # NoJobId
          THEN /\ pc' = [pc EXCEPT ![c] = "locked"]
               /\ row_lock' = [row_lock EXCEPT ![j] = c]
               /\ job_to_process' = [job_to_process EXCEPT ![c] = jobs[j]]
               /\ UNCHANGED run_once_retries
          ELSE /\ IF run_once_retries[c] >= RUN_ONCE_EMPTY_POLLS
                  THEN /\ pc' = [pc EXCEPT ![c] = "exited"]
                       /\ UNCHANGED run_once_retries
                  ELSE /\ pc' = [pc EXCEPT ![c] = "sleeping"]
                       /\ run_once_retries' = [run_once_retries EXCEPT ![c] = @ + 1]
               /\ UNCHANGED <<row_lock, job_to_process>>
    /\ UNCHANGED <<jobs, success, cancel_requested, dispatched, bvars, hvars, jvars,
                   tvars, mvars>>

\* the finalizing update and commit with run_once=True: "if run_once: break"
FinalizeOnce(c) ==
    /\ pc[c] = "processed"
    /\ LET j == job_to_process[c].job_id
           retries == job_to_process[c].retries
       IN jobs' = [jobs EXCEPT ![j].status = FinalStatus(success[c], retries),
                               ![j].retries = FinalRetries(success[c], retries)]
    /\ pc' = [pc EXCEPT ![c] = "exited"]
    /\ job_to_process' = [job_to_process EXCEPT ![c] = NoJob]
    /\ success' = [success EXCEPT ![c] = FALSE]
    /\ UNCHANGED <<row_lock, bvars, hvars, jvars, lvars, tvars, mvars>>

\* the steps of worker_main_loop(..., run_once=True)
LoopOnce(c) ==
    \/ SelectOnce(c)
    \/ Wake(c)
    \/ ClaimCommit(c)
    \/ ClaimError(c)
    \/ Process(c)
    \/ FinalizeOnce(c)
    \/ FinalizeError(c)
    \/ Backoff(c)

NextOnce == \E c \in Consumers : LoopOnce(c)

\* consumers in run-once mode; a running loop keeps taking steps
FairOnce == InitLoop /\ [][NextOnce]_vars /\ \A c \in Consumers : WF_vars(LoopOnce(c))

(***************************************************************************)
(* Claims about the job queue (checked under Spec)                         *)
(***************************************************************************)
\* consumer c has job j in hand: selected and locked, or claimed and not yet finalized
Holder(c, j) ==
    /\ pc[c] \in {"locked", "claimed", "processed"}
    /\ job_to_process[c].job_id = j

KnownJobTypes ==
    {"process_join_request", "register_group", "send_to_groups",
     "update_member_counts", "kick_inactive_members", "process_update"}

\* C1: no job is in the hands of two consumers at once, and a job a consumer has
\* claimed and not finalized is in status processing: of two concurrent claim
\* attempts on one pending job, one obtains it and the other gets no row.
C1_ClaimExclusive ==
    \A j \in JobIds :
        /\ Cardinality({c \in Consumers : Holder(c, j)}) <= 1
        /\ \A c \in Consumers :
              (Holder(c, j) /\ pc[c] # "locked") => jobs[j].status = "processing"

\* one consumer holds the lock on the partition's only job, never claimed before,
\* while the other has polled and found nothing
C1_Witness ==
    \E c, d \in Consumers, j \in JobIds :
        /\ c # d
        /\ pc[c] = "locked" /\ job_to_process[c].job_id = j
        /\ jobs[j].retries = 0
        /\ \A k \in JobIds \ {j} : jobs[k].bot_token # TGMS_BOT_TOKEN
        /\ pc[d] = "sleeping"

\* C2: a job's status changes only along pending->processing,
\* processing->completed, processing->failed and processing->pending.
C2_StatusEdges ==
    [][\A j \in JobIds :
          jobs'[j].status # jobs[j].status =>
              <<jobs[j].status, jobs'[j].status>> \in
                  { <<"pending", "processing">>, <<"processing", "completed">>,
                    <<"processing", "failed">>, <<"processing", "pending">> }]_vars

\* one job has ended completed, another failed
C2_Witness ==
    \E j, k \in JobIds : jobs[j].status = "completed" /\ jobs[k].status = "failed"

\* C3: finalization writes completed with retries unchanged on success, pending
\* with retries r+1 on a failure with r < 3, failed on a failure with r >= 3,
\* r being the retry count of the job's row when it is finalized.
C3_RetryPolicy ==
    [][\A c \in Consumers :
          (pc[c] = "processed" /\ pc'[c] = "idle") =>
              LET j == job_to_process[c].job_id
                  r == jobs[j].retries
              IN /\ success[c] =>
                        jobs'[j].status = "completed" /\ jobs'[j].retries = r
                 /\ (~success[c] /\ r < 3) =>
                        jobs'[j].status = "pending" /\ jobs'[j].retries = r + 1
                 /\ (~success[c] /\ r >= 3) => jobs'[j].status = "failed"]_vars

\* a job requeued with retries = 3 next to a job that ended failed
C3_Witness ==
    \E j, k \in JobIds :
        /\ jobs[j].status = "pending" /\ jobs[j].retries = 3
        /\ jobs[k].status = "failed"

\* C4: a job whose payload cannot be parsed is failed by its first handling: once
\* handled (retries > 0) it is failed, never pending or processing again.
C4_MalformedFailsAtOnce ==
    \A j \in JobIds :
        (jobs[j].payload = "garbage" /\ jobs[j].retries > 0) => jobs[j].status = "failed"

\* C5: handling a job of unknown type touches no group, slot or platform state,
\* and its finalization writes failed.
C5_UnknownTypeFails ==
    [][\A c \in Consumers :
          (/\ job_to_process[c].job_id # NoJobId
           /\ job_to_process[c].payload = "json"
           /\ job_to_process[c].job_type \notin KnownJobTypes) =>
              /\ (pc[c] = "claimed" /\ pc'[c] = "processed") =>
                    (~success'[c] /\ UNCHANGED bvars)
              /\ (pc[c] = "processed" /\ pc'[c] = "idle") =>
                    jobs'[job_to_process[c].job_id].status = "failed"]_vars

C20_ClaimKeepsMessageId ==
    [][\A w \in Workers :
          /\ (bpc[w] = "slot_select" /\ bpc'[w] = "slot_upsert") =>
                LET row == slots[CurKey(w)]
                IN slot_read'[w] =
                       IF row = NoSlot \/ row.message_id <= 0 THEN NoneId
                       ELSE row.message_id
          /\ (bpc[w] = "slot_upsert" /\ bpc'[w] = "claim_checked") =>
                /\ claim_result'[w] = <<TRUE, slot_read[w]>>
                /\ slots'[CurKey(w)].created_at = now
                /\ slots'[CurKey(w)].message_id =
                       IF slots[CurKey(w)] = NoSlot THEN 0 ELSE slots[CurKey(w)].message_id
                /\ \A k \in Groups \X Usernames :
                       k # CurKey(w) => slots'[k] = slots[k]
      ]_vars

\* a claim made 15 seconds or more after message 2 was saved has returned
\* (true, 2) and the slot still holds 2 under the new timestamp
C20_Witness ==
    \E w \in Workers :
        /\ bpc[w] = "claim_checked"
        /\ claim_result[w] = <<TRUE, 2>>
        /\ slots[CurKey(w)] = [created_at |-> now, message_id |-> 2]
        /\ now >= 15

(***************************************************************************)
(* Claims about the broadcast engine (checked under SpecSeq)               *)
(***************************************************************************)
\* worker w is past the slot claim of its current group: deleting, sending or
\* recording the outcome
Attempting(w) == bpc[w] \in {"send", "save", "reset", "failed", "threshold", "sleep"}

\* C7: in a broadcast with a recipient, the engine goes on to delete or send for a
\* group only if the slot claim for it returned claimed = true.
C7_RefusedClaimSkips ==
    \A w \in Workers :
        (Attempting(w) /\ buser[w] # None) => claim_result[w][1]

\* C8: when the engine has recorded a generic failure, the group is deactivated if
\* this was its 7th or later generic failure in a row (no success in between) and
\* its is_active flag is left as it was otherwise; the stored counter is the
\* number of generic failures in a row whenever no outcome is being recorded.
C8_SevenFailures ==
    /\ []((\A w \in Workers : bpc[w] \notin {"save", "reset", "failed"}) =>
            \A g \in Groups : managed_groups[g].consecutive_failures = streak[g])
    /\ [][\A w \in Workers :
            (bpc[w] = "threshold" /\ bpc'[w] = "sleep") =>
                LET g == CurGroup(w)
                IN IF streak[g] >= 7
                   THEN ~managed_groups'[g].is_active
                   ELSE managed_groups'[g].is_active = managed_groups[g].is_active
       ]_vars

\* a group with failure_count 7 after 7 generic failures in a row, deactivated,
\* next to a group with 6 that is still active
C8_Witness ==
    \E g, h \in Groups :
        /\ streak[g] = 7 /\ managed_groups[g].consecutive_failures = 7
        /\ ~managed_groups[g].is_active
        /\ streak[h] = 6 /\ managed_groups[h].consecutive_failures = 6
        /\ managed_groups[h].is_active
        /\ \A w \in Workers : bpc[w] = "idle"

\* C9: handling a send failure of the forbidden/kicked class sets is_active to
\* false, whatever the group's failure counter.
C9_ForbiddenDeactivates ==
    [][\A w \in Workers :
          (/\ bpc[w] = "failed" /\ bpc'[w] # "failed"
           /\ response[w].error \in ForbiddenClass) =>
              ~managed_groups'[CurGroup(w)].is_active]_vars

\* a group deactivated with its failure counter at 0, listed as failed
C9_Witness ==
    \E w \in Workers, g \in Groups :
        /\ ~managed_groups[g].is_active
        /\ managed_groups[g].consecutive_failures = 0
        /\ streak[g] = 0
        /\ \E i \in 1..Len(results[w].failed) : results[w].failed[i] = g

\* C10: handling a forbidden/kicked failure leaves the failure counter as it was,
\* and no group is sent to twice within one broadcast.
C10_ForbiddenKeepsCounter ==
    /\ [](\A w \in Workers : \A i, j \in 1..Len(calls[w]) :
            (i < j /\ calls[w][i][1] = "send" /\ calls[w][j][1] = "send") =>
                calls[w][i][2] # calls[w][j][2])
    /\ [][\A w \in Workers :
            (/\ bpc[w] = "failed" /\ bpc'[w] # "failed"
             /\ response[w].error \in ForbiddenClass) =>
                /\ managed_groups'[CurGroup(w)].consecutive_failures =
                       managed_groups[CurGroup(w)].consecutive_failures
                /\ bpc'[w] = "loop" /\ bidx'[w] = bidx[w] + 1
       ]_vars

\* a group deactivated by a forbidden failure with 3 generic failures on its
\* counter, the broadcast gone on past it
C10_Witness ==
    \E w \in Workers, g \in Groups :
        /\ ~managed_groups[g].is_active
        /\ managed_groups[g].consecutive_failures = 3
        /\ bpc[w] = "loop"
        /\ Len(results[w].failed) > 0
        /\ results[w].failed[Len(results[w].failed)] = g
        /\ calls[w][Len(calls[w])] = <<"send", g>>

\* the groups listed in results["failed"] of worker w
FailedGroups(w) == {results[w].failed[i] : i \in 1..Len(results[w].failed)}

\* the groups listed in results["sent_to"] of worker w
SentGroups(w) == {results[w].sent_to[i] : i \in 1..Len(results[w].sent_to)}

C13_LinkRotation ==
    /\ [](\A i, j \in 1..Len(link_log) :
            LET n == insta_links["alice"].n_links
            IN /\ j = i + 1 => link_log[j] = (link_log[i] + 1) % n
               /\ (i < j /\ j - i < n) => link_log[i] # link_log[j])
    /\ [][\A w \in Workers :
            (hpc[w] = "cycle" /\ hpc'[w] # "cycle" /\ h_details[w].n_links > 0) =>
                LET u == h_user[w]
                    n == insta_links[u].n_links
                    last == insta_links[u].last_used_link_index
                    pick == IF last = NoneId THEN 0 ELSE (last + 1) % n
                IN /\ watch_link'[w] = pick
                   /\ insta_links'[u].last_used_link_index = pick
                   /\ link_log' = Append(link_log, pick)
       ]_vars

\* three runs for a recipient with two links and stored index 0 picked links
\* 1, 0, 1, and the third run has just reported failure
C13_Witness ==
    /\ insta_links["alice"].n_links = 2
    /\ link_log = <<1, 0, 1>>
    /\ hpc["w1"] = "returned" /\ ~outcome["w1"]
    /\ \E g \in Groups : managed_groups[g].consecutive_failures > 0

ApprovedChats(u) ==
    { jobs[j].chat_id : j \in { k \in JobIds :
          /\ jobs[k].user_id = u
          /\ \E i \in 1..Len(approve_log[k]) : approve_log[k][i] } }

\* the job in the hands of consumer c is the only queued request of its user for
\* its chat
OnlyRequest(c) ==
    \A k \in JobIds :
        k # job_to_process[c].job_id => JoinKey(jobs[k]) # JoinKey(job_to_process[c])

\* C16: under every interleaving of the consumers, the approval API has answered
\* ok for a user in at most one managed group.
C16_OneGroupPerUser ==
    \A u \in Users : Cardinality(ApprovedChats(u)) <= 1

\* C17: when the handler returns from the already-a-member path for a user
\* tracked in another managed group (the user's only request for the chat), the
\* request row of (user, chat) it recorded has status rejected_already_member,
\* the handler reports failure, and the path has not called the approval API.
C17_RejectedRecorded ==
    [][\A c \in Consumers :
          /\ (/\ pc[c] = "j_rej_update" /\ pc'[c] = "processed"
              /\ OnlyRequest(c)
              /\ user_groups[job_to_process[c].user_id] \notin
                    {NoneId, job_to_process[c].chat_id}) =>
                LET rows == join_requests'[JoinKey(job_to_process[c])]
                IN /\ rows # <<>>
                   /\ Latest(rows) = "rejected_already_member"
                   /\ ~success'[c]
          /\ (pc[c] \in {"j_rej_insert", "j_rej_update"} /\ pc'[c] # pc[c]) =>
                approve_log'[job_to_process[c].job_id] = approve_log[job_to_process[c].job_id]
      ]_vars

\* C18: when a handler run that recorded or found a request row returns, the
\* latest row of its (user, chat) is approved, rejected_already_member or failed,
\* not pending, on the first run of a job and on every rerun (the job being the
\* user's only request for the chat).
C18_LeavesPending ==
    [][\A c \in Consumers :
          (/\ pc[c] \in {"j_rej_update", "j_approved", "j_failed"} /\ pc'[c] = "processed"
           /\ OnlyRequest(c)) =>
              LET rows == join_requests'[JoinKey(job_to_process[c])]
              IN rows # <<>> /\ Latest(rows) \in {"approved", "rejected_already_member", "failed"}
      ]_vars

\* C19: when the approval API has answered a request with a failure, the request
\* row (the first of its user and chat) is marked failed, and the approval API is
\* never called for a request it has answered with a failure.
C19_NoRetryAfterFailure ==
    [][\A c \in Consumers :
          LET j == job_to_process[c].job_id
          IN /\ (/\ pc[c] = "j_failed" /\ pc'[c] = "processed"
                 /\ Len(join_requests[JoinKey(job_to_process[c])]) = 1) =>
                   Latest(join_requests'[JoinKey(job_to_process[c])]) = "failed"
             /\ (pc[c] = "j_approve" /\ pc'[c] # "j_approve") =>
                   \A i \in 1..Len(approve_log[j]) : approve_log[j][i]
      ]_vars

(***************************************************************************)
(* Claims about concurrent workers (checked under SpecPar)                 *)
(***************************************************************************)
\* C11: no worker sends to a group whose is_active flag is false: every send,
\* by a broadcast just started or one already in progress, goes to a group that
\* is active when the message is sent.
C11_NoSendToInactive ==
    [][\A w \in Workers :
          (bpc[w] = "send" /\ bpc'[w] # "send") =>
              managed_groups[CurGroup(w)].is_active]_vars

\* C14: two workers handling send_to_groups jobs for one recipient at the same
\* time never pick the same link, and the second index stored is one past the
\* first (for a link list of length at least 2).
C14_ConcurrentRotation ==
    /\ \A w, v \in Workers :
          (w # v /\ watch_link[w] >= 0 /\ watch_link[v] >= 0) =>
              watch_link[w] # watch_link[v]
    /\ Len(link_log) >= 2 => link_log[2] = (link_log[1] + 1) % NLinks

C22_RefusedClaimRefreshes ==
    [][\A w \in Workers :
          (bpc[w] = "slot_select" /\ bpc'[w] = "claim_checked") =>
              /\ claim_result'[w] = <<FALSE, NoneId>>
              /\ slots'[CurKey(w)].created_at = now
      ]_vars

\* C22, amended: a claim whose read finds the slot less than 15 seconds old is
\* refused with (false, none), and from its read to its return the call writes
\* nothing: the slot's row, timestamp included, is the one it found.
C22_RefusedClaimWritesNothing ==
    [][\A w \in Workers :
          /\ (bpc[w] = "slot_select" /\ slots[CurKey(w)] # NoSlot
                 /\ now - slots[CurKey(w)].created_at < 15) =>
                (bpc'[w] = "slot_select"
                    \/ (bpc'[w] = "claim_checked" /\ claim_result'[w] = <<FALSE, NoneId>>))
          /\ (bpc[w] = "slot_select" /\ bpc'[w] = "claim_checked") => slots' = slots
          /\ (bpc[w] = "claim_checked" /\ ~claim_result[w][1] /\ bpc'[w] = "idle") =>
                slots' = slots
      ]_vars

\* a claim was refused 5 seconds or more after the slot's timestamp, and the
\* timestamp is still the old one
C22_Witness ==
    \E w \in Workers :
        /\ bpc[w] = "claim_checked"
        /\ claim_result[w] = <<FALSE, NoneId>>
        /\ slots[CurKey(w)] # NoSlot
        /\ slots[CurKey(w)].created_at < now
        /\ \A v \in Workers \ {w} : bpc[v] = "idle"

\* C23: the upsert of a claim does not look at the slot again: a claim whose read
\* passed the 15-second test returns claimed=true even when another claim of the
\* same key has succeeded since that read, so two concurrent claims on a slot that
\* is absent or older than 15 seconds can both return claimed=true.
C23_UpsertDoesNotRecheck ==
    [][\A w \in Workers :
          (bpc[w] = "slot_upsert" /\ bpc'[w] # "slot_upsert") =>
              /\ claim_result'[w][1] = TRUE
              /\ \A v \in Workers \ {w} :
                    (bpc[v] = "slot_upsert" /\ CurKey(v) = CurKey(w)) =>
                        bpc'[v] = "slot_upsert"
      ]_vars

\* two callers claimed the same key at the same instant, neither has returned yet,
\* and both hold claimed=true
C23_Witness ==
    /\ now < 15
    /\ \A w \in Workers :
          /\ bpc[w] = "claim_checked"
          /\ claim_result[w][1] = TRUE
          /\ CurKey(w) = <<ApiGroup, "alice">>
    /\ last_claim[<<ApiGroup, "alice">>] # NoneId

(***************************************************************************)
(* Claims about store errors and the claim query (checked under Spec)      *)
(***************************************************************************)
\* C24: when the store fails in the claim step (in the select, or after it and
\* before the commit of the processing update), the jobs table is as it was, the
\* selected job is pending with its retries unchanged and no row lock of the
\* consumer is left; after the back-off the consumer is idle and holds no job.
C24_ClaimErrorAborts ==
    [][\A c \in Consumers :
          /\ (pc[c] \in {"idle", "locked"} /\ pc'[c] = "backoff") =>
                /\ jobs' = jobs
                /\ \A j \in JobIds : row_lock'[j] # c
                /\ pc[c] = "locked" =>
                      /\ jobs'[job_to_process[c].job_id].status = "pending"
                      /\ jobs'[job_to_process[c].job_id].retries = job_to_process[c].retries
          /\ (pc[c] = "backoff" /\ pc'[c] # "backoff") =>
                /\ pc'[c] = "idle"
                /\ job_to_process'[c] = NoJob
                /\ jobs' = jobs
      ]_vars

\* a consumer backs off after a store error between its select and its commit:
\* the job it had selected is pending, unlocked, with the retries it had
C24_Witness ==
    \E c \in Consumers :
        /\ pc[c] = "backoff"
        /\ job_to_process[c] # NoJob
        /\ jobs[job_to_process[c].job_id].status = "pending"
        /\ jobs[job_to_process[c].job_id].retries = job_to_process[c].retries
        /\ row_lock[job_to_process[c].job_id] = None

\* C25: every job in status processing is in the hands of a consumer that has
\* claimed it and is still in the iteration that will finalize it (or is backing
\* off from that iteration).
C25_NoOrphanProcessing ==
    \A j \in JobIds :
        jobs[j].status = "processing" =>
            \E c \in Consumers :
                /\ job_to_process[c].job_id = j
                /\ pc[c] \in {"claimed", "processed", "backoff"}

\* C29: a select that returns a row returns a pending job of the consumer's
\* partition that no other transaction has locked, the one with the smallest
\* created_at among those; a select that returns nothing found none; the claim's
\* update changes the status of that job only; and a job of another partition is
\* never locked, held or changed.
C29_ClaimQuery ==
    /\ [](\A j \in JobIds :
             jobs[j].bot_token # "tgms" =>
                 /\ jobs[j].status = "pending"
                 /\ jobs[j].retries = 0
                 /\ row_lock[j] = None
                 /\ \A c \in Consumers : job_to_process[c].job_id # j)
    /\ [][\A c \in Consumers :
             LET free(k) == /\ jobs[k].status = "pending"
                            /\ jobs[k].bot_token = "tgms"
                            /\ row_lock[k] = None
             IN /\ (pc[c] = "idle" /\ pc'[c] = "locked") =>
                      LET j == job_to_process'[c].job_id
                      IN /\ j \in JobIds
                         /\ free(j)
                         /\ \A k \in JobIds : free(k) => jobs[j].created_at <= jobs[k].created_at
                         /\ job_to_process'[c] = jobs[j]
                         /\ jobs' = jobs
                /\ (pc[c] = "idle" /\ pc'[c] = "sleeping") => \A k \in JobIds : ~free(k)
                /\ (pc[c] = "locked" /\ pc'[c] = "claimed") =>
                      jobs' = [jobs EXCEPT ![job_to_process[c].job_id].status = "processing"]
          ]_vars

\* the oldest job belongs to another partition and is pending, unlocked; a
\* consumer has claimed the younger job of its own partition while the other
\* consumer's select found nothing
C29_Witness ==
    /\ jobs[1].bot_token = "other"
    /\ jobs[1].status = "pending"
    /\ row_lock[1] = None
    /\ jobs[2].status = "processing"
    /\ \E c, d \in Consumers :
          /\ pc[c] = "claimed"
          /\ job_to_process[c].job_id = 2
          /\ pc[d] = "sleeping"

(***************************************************************************)
(* Claims about the loop's lifecycle (SpecCrash, SpecStop, FairOnce)       *)
(***************************************************************************)
\* C26: a job whose consumer died after committing the claim and before
\* finalizing is in status processing with the retries it was claimed with, in
\* every later state, and no other consumer has it; the dead consumer takes no
\* further step.
C26_CrashedStaysProcessing ==
    /\ [](\A c \in Consumers :
             (pc[c] = "crashed" /\ job_to_process[c] # NoJob) =>
                 /\ jobs[job_to_process[c].job_id].status = "processing"
                 /\ jobs[job_to_process[c].job_id].retries = job_to_process[c].retries
                 /\ \A d \in Consumers \ {c} :
                       job_to_process[d].job_id # job_to_process[c].job_id)
    /\ [][\A c \in Consumers :
             pc[c] = "crashed" =>
                 (pc'[c] = "crashed" /\ job_to_process'[c] = job_to_process[c])
          ]_vars

\* a consumer died with job 1 claimed; the other consumer has since finalized
\* job 2, polled again and found nothing; job 1 is still processing
C26_Witness ==
    \E c, d \in Consumers :
        /\ pc[c] = "crashed"
        /\ job_to_process[c].job_id = 1
        /\ jobs[1].status = "processing"
        /\ jobs[2].status = "completed"
        /\ pc[d] = "sleeping"

\* C27: a consumer that has stopped on the signal left no job it had claimed in
\* status processing, and once the signal has arrived the consumer commits no
\* further claim.
C27_StopAfterIteration ==
    /\ [](\A c \in Consumers :
             (pc[c] = "stopped" /\ job_to_process[c] # NoJob) =>
                 jobs[job_to_process[c].job_id].status # "processing")
    /\ [][\A c \in Consumers :
             cancel_requested[c] => ~(pc[c] = "locked" /\ pc'[c] = "claimed")
          ]_vars

\* C28: in run-once mode every consumer's loop exits.
C28_RunOnceTerminates ==
    \A c \in Consumers : <>(pc[c] = "exited")

(***************************************************************************)
(* The inter-group delay (checked under SpecSeq)                           *)
(***************************************************************************)
\* C30: the engine leaves a group it has attempted (sent to, with success, a
\* generic error or a forbidden/kicked error) only through the fixed delay,
\* time.sleep(3): no step takes it from an attempt to the next group otherwise.
C30_DelayAfterEveryAttempt ==
    [][\A w \in Workers :
          (Attempting(w) /\ bidx'[w] # bidx[w]) => bpc[w] = "sleep"
      ]_vars

(***************************************************************************)
(* Groups that do not allow the final message (checked under SpecSeq)       *)
(***************************************************************************)
\* the loop of worker w stands at a group whose final_message_allowed is false
AtDisallowedGroup(w) ==
    /\ bpc[w] = "loop"
    /\ bidx[w] <= Len(bgroups[w])
    /\ ~bgroups[w][bidx[w]].final_message_allowed

\* the group ids of a worker's list whose final_message_allowed is false
DisallowedGroups(w) ==
    { bgroups[w][i].group_id :
        i \in { k \in 1..Len(bgroups[w]) : ~bgroups[w][k].final_message_allowed } }

\* C31: a group whose final_message_allowed flag is false is skipped with no
\* effect: the step of the broadcast that leaves it only moves on to the next
\* group (no slot claim, no platform call, no change of any group row, slot or
\* result list), and during the whole broadcast no delete or send is issued for
\* it and it is in neither the sent nor the failed list.
C31_DisallowedGroupSkipped ==
    /\ [](\A w \in Workers : \A g \in DisallowedGroups(w) :
             /\ \A i \in 1..Len(calls[w]) : calls[w][i][2] # g
             /\ \A i \in 1..Len(results[w].sent_to) : results[w].sent_to[i] # g
             /\ \A i \in 1..Len(results[w].failed) : results[w].failed[i] # g)
    /\ [][\A w \in Workers :
             (AtDisallowedGroup(w) /\ <<bpc[w], bidx[w]>>' # <<bpc[w], bidx[w]>>) =>
                 /\ bpc'[w] = "loop"
                 /\ bidx'[w] = bidx[w] + 1
                 /\ UNCHANGED <<managed_groups, slots, last_claim, streak, calls, results,
                                claim_result, sent_tags, text_tags>>
          ]_vars

\* a broadcast is over that skipped its first group and sent to its second
C31_Witness ==
    \E w \in Workers :
        /\ bpc[w] = "done"
        /\ Len(bgroups[w]) = 2
        /\ ~bgroups[w][1].final_message_allowed
        /\ bgroups[w][2].final_message_allowed
        /\ results[w].sent_to = <<bgroups[w][2].group_id>>
        /\ results[w].failed = <<>>

(***************************************************************************)
(* Replacing the previous notification: broadcasts of one engine to one     *)
(* active group, with the clock                                             *)
(***************************************************************************)
\* one active group that allows the final message; the other group was deactivated
BInitOne ==
    /\ now = 0
    /\ managed_groups =
          [g \in Groups |-> [GroupRow(TRUE) EXCEPT !.is_active = (g = ApiGroup)]]
    /\ slots = [k \in Groups \X Usernames |-> NoSlot]
    /\ streak = [g \in Groups |-> 0]
    /\ last_claim = [k \in Groups \X Usernames |-> NoneId]
    /\ BWorkersIdle

InitDelete == QQuiet /\ BInitOne /\ HQuiet /\ JQuiet /\ LQuiet /\ TQuiet

NextDelete ==
    \/ Tick
    \/ Broadcast("w1")

\* broadcasts of one engine, one after the other, while time passes
SpecDelete == InitDelete /\ [][NextDelete]_vars

\* C32: after a successful slot claim that returned a previous message id the
\* engine calls delete_message for the group before it sends; every delete call
\* is directly followed by the send to the same group, whatever the delete
\* returned; and the delete step counts no failure (no result entry, no change
\* of a group row).
C32_DeleteBeforeSend ==
    /\ [](\A w \in Workers : \A i \in 1..Len(calls[w]) :
             calls[w][i][1] = "delete" =>
                 IF i = Len(calls[w])
                 THEN bpc[w] = "send" /\ CurGroup(w) = calls[w][i][2]
                 ELSE calls[w][i + 1] = <<"send", calls[w][i][2]>>)
    /\ [][\A w \in Workers :
             /\ ( /\ bpc[w] = "claim_checked"
                  /\ bpc'[w] # "claim_checked"
                  /\ claim_result[w][1]
                  /\ TruthyId(claim_result[w][2]) )
                => /\ bpc'[w] = "send"
                   /\ Len(calls'[w]) = Len(calls[w]) + 1
                   /\ calls'[w][Len(calls'[w])][1] = "delete"
                   /\ calls'[w][Len(calls'[w])][2] = CurGroup(w)
             /\ ( /\ Len(calls'[w]) = Len(calls[w]) + 1
                  /\ calls'[w][Len(calls'[w])][1] = "delete" )
                => UNCHANGED <<managed_groups, results, streak, slots>>
          ]_vars

\* a claim succeeded with a previous message id, the delete failed, and the new
\* message was sent and recorded all the same, with no failure counted
C32_Witness ==
    \E w \in Workers, g \in Groups :
        /\ bpc[w] = "sleep"
        /\ claim_result[w] # NoClaim
        /\ claim_result[w][1]
        /\ TruthyId(claim_result[w][2])
        /\ calls[w] = << <<"delete", g, FALSE>>, <<"send", g>> >>
        /\ results[w].sent_to = <<g>>
        /\ results[w].failed = <<>>
        /\ managed_groups[g].consecutive_failures = 0

(***************************************************************************)
(* The debug tag of each outbound message: broadcasts of one engine with    *)
(* every combination of photo_url, caption and text                         *)
(***************************************************************************)
\* a text-only broadcast: send_to_groups(text = ...), no photo_url, no caption
TextOnly == [photo_url |-> FALSE, caption |-> FALSE, text |-> TRUE]

\* the argument combinations of send_to_groups that carry something to send
Payloads ==
    { p \in [photo_url : BOOLEAN, caption : BOOLEAN, text : BOOLEAN] :
        p.photo_url \/ p.caption \/ p.text }

InitTags == QQuiet /\ BInit /\ HQuiet /\ JQuiet /\ LQuiet /\ TQuiet

NextTags ==
    \/ \E p \in Payloads : StartWith("w1", None, p)
    \/ NextGroup("w1")
    \/ Send("w1")
    \/ ResetFailure("w1")
    \/ OnFailure("w1")
    \/ Threshold("w1")
    \/ Sleep("w1")
    \/ Return("w1")

\* broadcasts without a recipient username, one after the other
SpecTags == InitTags /\ [][NextTags]_vars

\* C33: every message a broadcast sends carries exactly one debug tag, the one
\* generated for its own group attempt, and none of the tags of earlier groups.
C33_OneTagPerMessage ==
    \A w \in Workers : \A i \in 1..Len(sent_tags[w]) :
        (payload[w] \in {PhotoCaption, [PhotoCaption EXCEPT !.text = FALSE], TextOnly})
            => sent_tags[w][i].tags = {sent_tags[w][i].tag}

(***************************************************************************)
(* The consumer's cycle, without store errors and crashes                   *)
(***************************************************************************)
NextCycle ==
    \E c \in Consumers :
        \/ Select(c)
        \/ Wake(c)
        \/ ClaimCommit(c)
        \/ Process(c)
        \/ Finalize(c)

\* the consumers of one partition while the store answers every statement
SpecCycle == InitLoop /\ [][NextCycle]_vars

\* the consumer has committed a claim and not yet finalized the job
Busy(c) == pc[c] \in {"claimed", "processed"}

\* C34: each consumer cycles idle -> (row locked) -> claimed -> dispatched ->
\* finalized -> idle.  A consumer holds at most one job: the jobs in status
\* processing are exactly the jobs of the busy consumers, one each.  A job is
\* dispatched only from the claimed position, with its row committed as
\* processing, and a busy consumer issues no select.
C34_ConsumerCycle ==
    /\ [](/\ \A c \in Consumers :
               Busy(c) => /\ job_to_process[c] # NoJob
                          /\ jobs[job_to_process[c].job_id].status = "processing"
          /\ \A c, d \in Consumers :
               (Busy(c) /\ Busy(d) /\ c # d) =>
                   job_to_process[c].job_id # job_to_process[d].job_id
          /\ \A j \in JobIds :
               jobs[j].status = "processing" =>
                   \E c \in Consumers : Busy(c) /\ job_to_process[c].job_id = j)
    /\ [][\A c \in Consumers :
             /\ pc'[c] # pc[c] =>
                   <<pc[c], pc'[c]>> \in { <<"idle", "locked">>, <<"idle", "sleeping">>,
                                           <<"sleeping", "idle">>, <<"locked", "claimed">>,
                                           <<"claimed", "processed">>,
                                           <<"processed", "idle">> }
             /\ (\E j \in JobIds : dispatched'[j] # dispatched[j] /\ pc'[c] # pc[c]) =>
                   /\ pc[c] = "claimed"
                   /\ jobs[job_to_process[c].job_id].status = "processing"
             /\ (\E j \in JobIds : row_lock'[j] = c /\ row_lock[j] # c) =>
                   /\ pc[c] = "idle"
                   /\ job_to_process[c] = NoJob
          ]_vars

\* one consumer has finalized a job and locked the next row while the other is
\* between its claim and its finalizing update
C34_Witness ==
    \E c, d \in Consumers :
        /\ pc[c] = "locked"
        /\ pc[d] = "processed"
        /\ job_to_process[c].job_id # job_to_process[d].job_id
        /\ \E j \in JobIds : jobs[j].status = "pending" /\ jobs[j].retries > 0

(***************************************************************************)
(* The retry budget, with store errors and crashes                          *)
(***************************************************************************)
NextFaults ==
    \/ Next
    \/ \E c \in Consumers : Crash(c)

\* the consumers of one partition, any statement of the store may raise and any
\* consumer may die
SpecFaults == InitLoop /\ [][NextFaults]_vars

\* C35: a job is handed to process_tgms_job at most MAX_RETRIES + 1 = 4 times,
\* counted over all consumers; its retries never decreases and never exceeds 4;
\* and a job in status failed has retries = 4.
C35_RetryBudget ==
    /\ [](\A j \in JobIds :
             /\ dispatched[j] <= MAX_RETRIES + 1
             /\ jobs[j].retries <= MAX_RETRIES + 1
             /\ jobs[j].status = "failed" => jobs[j].retries = MAX_RETRIES + 1)
    /\ [][\A j \in JobIds : jobs'[j].retries >= jobs[j].retries]_vars

\* a job has failed after four dispatches while the other one completed on a retry
C35_Witness ==
    \E j, k \in JobIds :
        /\ jobs[j].status = "failed"
        /\ dispatched[j] = MAX_RETRIES + 1
        /\ jobs[k].status = "completed"
        /\ jobs[k].retries > 0
        /\ dispatched[k] = jobs[k].retries + 1

(***************************************************************************)
(* Progress of the queue: every consumer keeps running, the store answers   *)
(***************************************************************************)
\* one iteration step of consumer c
Loop(c) ==
    \/ Select(c)
    \/ Wake(c)
    \/ ClaimCommit(c)
    \/ Process(c)
    \/ Finalize(c)

NextFair == \E c \in Consumers : Loop(c)

\* each consumer is a process of its own that the operating system keeps
\* scheduling: weak fairness of every consumer's loop
FairCycle == InitLoop /\ [][NextFair]_vars /\ \A c \in Consumers : WF_vars(Loop(c))

\* C36: every pending job of the worker's partition eventually is completed or
\* failed.
C36_PendingJobsFinish ==
    \A j \in JobIds :
        (jobs[j].status = "pending" /\ jobs[j].bot_token = TGMS_BOT_TOKEN)
            ~> (jobs[j].status \in {"completed", "failed"})

\* the partition's jobs have all left the queue, one of them as failed
C36_Witness ==
    /\ \A j \in JobIds :
          jobs[j].bot_token = TGMS_BOT_TOKEN /\ jobs[j].status \in {"completed", "failed"}
    /\ \E j \in JobIds : jobs[j].status = "failed"
    /\ \E j \in JobIds : jobs[j].status = "completed"
    /\ \A c \in Consumers : pc[c] = "sleeping"

(***************************************************************************)
(* The order of claims with a single consumer                               *)
(***************************************************************************)
NextSolo == Loop("c1")

\* one consumer on the partition, the store answers every statement
SpecSolo == Init /\ [][NextSolo]_vars

\* the row was requeued: pending again after a failed dispatch
Requeued(j) == jobs[j].status = "pending" /\ jobs[j].retries > 0

\* C37: no step changes a job's created_at, and with a single consumer the row
\* the consumer has locked is the requeued job whenever there is one: a requeued
\* job is claimed again before any other pending job, until it is completed or
\* failed.
C37_RequeuedJobIsNext ==
    /\ [](\A j \in JobIds :
             (Requeued(j) /\ pc["c1"] = "locked") => job_to_process["c1"].job_id = j)
    /\ [][\A j \in JobIds : jobs'[j].created_at = jobs[j].created_at]_vars

\* the older job was requeued and is locked again while the younger one, of the
\* same partition, is still pending with no dispatch so far
C37_Witness ==
    \E j, k \in JobIds :
        /\ jobs[j].created_at < jobs[k].created_at
        /\ Requeued(j)
        /\ pc["c1"] = "locked"
        /\ job_to_process["c1"].job_id = j
        /\ jobs[k].status = "pending"
        /\ jobs[k].bot_token = TGMS_BOT_TOKEN
        /\ dispatched[k] = 0

(***************************************************************************)
(* Writers of the consecutive-failure counter (checked under SpecSeq)       *)
(***************************************************************************)
\* C38: a step that makes a group active, and a step that makes it inactive,
\* leave its consecutive_failures as it was; the counter changes only by + 1
\* (a recorded failure) or to 0 by the reset that follows a successful send to
\* the group.
C38_CounterFrame ==
    [][\A g \in Groups :
          LET old == managed_groups[g]
              new == managed_groups'[g]
          IN /\ new.is_active # old.is_active =>
                   new.consecutive_failures = old.consecutive_failures
             /\ new.consecutive_failures # old.consecutive_failures =>
                   \/ new.consecutive_failures = old.consecutive_failures + 1
                   \/ /\ new.consecutive_failures = 0
                      /\ \E w \in Workers :
                            /\ bpc[w] = "reset"
                            /\ CurGroup(w) = g
                            /\ response[w].ok
      ]_vars

\* a group that was deactivated at the threshold is active again with its counter
\* still at the threshold, and no broadcast is running
C38_Witness ==
    \E g \in Groups :
        /\ managed_groups[g].is_active
        /\ managed_groups[g].consecutive_failures = max_consecutive_failures
        /\ \A w \in Workers : bpc[w] = "idle"

(***************************************************************************)
(* Two engines record failures for the same groups at the same time         *)
(***************************************************************************)
\* one active group that has failed before, one or two failures short of the
\* threshold; the other group was deactivated
BInitWorn ==
    /\ now = 0
    /\ \E n \in (max_consecutive_failures - 2)..(max_consecutive_failures - 1) :
          managed_groups =
              [g \in Groups |-> [GroupRow(TRUE) EXCEPT !.consecutive_failures = n,
                                                       !.is_active = (g = ApiGroup)]]
    /\ slots = [k \in Groups \X Usernames |-> NoSlot]
    /\ streak = [g \in Groups |-> 0]
    /\ last_claim = [k \in Groups \X Usernames |-> NoneId]
    /\ BWorkersIdle

InitRace == QQuiet /\ BInitWorn /\ HQuiet /\ JQuiet /\ LQuiet /\ TQuiet

NextRace ==
    \E w \in Workers :
        \/ Start(w, None)
        \/ NextGroup(w)
        \/ Send(w)
        \/ ResetFailure(w)
        \/ OnFailure(w)
        \/ Threshold(w)
        \/ Sleep(w)
        \/ Return(w)

\* broadcasts without a recipient username by two engines at once
SpecRace == InitRace /\ [][NextRace]_vars

\* worker w has incremented the counter of group g and not yet tested the value
AtThreshold(w, g) ==
    /\ bpc[w] = "threshold"
    /\ CurGroup(w) = g

\* C39: each recorded non-forbidden failure raises the group's counter by exactly
\* one over whatever another worker has written meanwhile and hands the new value
\* to the recording worker, so k failures without a reset raise it by k; and a
\* group whose counter is 7 or more is inactive, or the worker that raised it is
\* at the threshold test that deactivates it.
C39_NoLostIncrement ==
    /\ [](\A g \in Groups :
             managed_groups[g].consecutive_failures >= max_consecutive_failures =>
                 \/ ~managed_groups[g].is_active
                 \/ \E w \in Workers :
                       AtThreshold(w, g) /\ failure_count[w] >= max_consecutive_failures)
    /\ [][\A w \in Workers :
             (bpc[w] = "failed" /\ bpc'[w] # "failed" /\ ~IsCritical(response[w].error)) =>
                 /\ managed_groups'[CurGroup(w)].consecutive_failures =
                        managed_groups[CurGroup(w)].consecutive_failures + 1
                 /\ failure_count'[w] = managed_groups'[CurGroup(w)].consecutive_failures
                 /\ bpc'[w] = "threshold"
          ]_vars

\* both workers have recorded a failure for the same group, one right after the
\* other: the counter is two above the start and each holds its own value
C39_Witness ==
    \E g \in Groups :
        /\ AtThreshold("w1", g)
        /\ AtThreshold("w2", g)
        /\ failure_count["w1"] # failure_count["w2"]
        /\ managed_groups[g].consecutive_failures >= max_consecutive_failures
        /\ managed_groups[g].is_active

(***************************************************************************)
(* Join requests for chats without a managed_groups row                     *)
(***************************************************************************)
\* a chat id that has no row in managed_groups
UnmanagedChat == 3

Chats == Groups \cup {UnmanagedChat}

\* what get_bot_member_status returns: the bot's status in the chat, or None
BotStatuses == {"administrator", "creator", "member", None}

\* get_managed_group(chat_id) found no row: get_bot_member_status, and for an
\* administrator or creator upsert_managed_group inserts the row (is_active =
\* true); then process_join_request looks the group up again and returns False
\* when there is still none
JoinUnmanaged(c) ==
    /\ pc[c] = "claimed"
    /\ job_to_process[c].job_type = "process_join_request"
    /\ job_to_process[c].chat_id \notin DOMAIN managed_groups
    /\ \E status \in BotStatuses :
          IF status \in {"administrator", "creator"}
          THEN /\ managed_groups' =
                     [g \in DOMAIN managed_groups \cup {job_to_process[c].chat_id} |->
                         IF g \in DOMAIN managed_groups THEN managed_groups[g]
                         ELSE GroupRow(TRUE)]
               /\ pc' = [pc EXCEPT ![c] = "j_member"]
               /\ UNCHANGED success
          ELSE /\ pc' = [pc EXCEPT ![c] = "processed"]
               /\ success' = [success EXCEPT ![c] = FALSE]
               /\ UNCHANGED managed_groups
    /\ UNCHANGED <<jobs, row_lock, job_to_process, now, slots, bpc, bgroups, bidx, buser,
                   claim_result, slot_read, response, failure_count, results, calls,
                   streak, last_claim, delivered, hvars, jvars, lvars, tvars, mvars>>

\* join requests of the users are queued, for managed chats and for a chat that
\* has no row
JQInitChats ==
    /\ \E u \in [JobIds -> Users], chat \in [JobIds -> Chats] :
          jobs = [j \in JobIds |-> JoinJobRow(j, u[j], chat[j])]
    /\ row_lock = [j \in JobIds |-> None]
    /\ pc = [c \in Consumers |-> "idle"]
    /\ job_to_process = [c \in Consumers |-> NoJob]
    /\ success = [c \in Consumers |-> FALSE]

JInitChats ==
    /\ user_groups \in [Users -> {NoneId} \cup Groups]
    /\ join_requests = [k \in Users \X Chats |-> <<>>]
    /\ approve_log = [j \in JobIds |-> <<>>]

InitGate == JQInitChats /\ BJoin /\ HQuiet /\ JInitChats /\ LQuiet /\ TQuiet

NextGate ==
    \/ Select("c1")
    \/ Wake("c1")
    \/ ClaimCommit("c1")
    \/ JoinUnmanaged("c1")
    \/ JoinDispatch("c1")
    \/ JoinCheckMember("c1")
    \/ JoinInsert("c1")
    \/ JoinReject("c1")
    \/ JoinApprove("c1")
    \/ JoinUpdateUser("c1")
    \/ JoinApproved("c1")
    \/ JoinFailed("c1")
    \/ Finalize("c1")

\* one consumer of a queue of join-request jobs
SpecGate == InitGate /\ [][NextGate]_vars

\* C40: when process_join_request finds no managed group for the chat, or an
\* inactive one, the handler returns False at once: no join_requests row is
\* written, the approval API is not called, user_groups is unchanged; for a
\* chat with an active managed group the handler goes on to the membership test.
C40_GateHasNoEffect ==
    [][\A c \in Consumers :
          (pc[c] = "claimed" /\ pc'[c] # "claimed") =>
              LET chat == job_to_process[c].chat_id
              IN IF chat \in DOMAIN managed_groups' /\ managed_groups'[chat].is_active
                 THEN pc'[c] = "j_member"
                 ELSE /\ pc'[c] = "processed"
                      /\ ~success'[c]
                      /\ UNCHANGED <<join_requests, approve_log, user_groups,
                                     managed_groups>>
      ]_vars

\* a request for a chat without a row and a request for an inactive group have
\* both run four times and failed; nothing was recorded, approved or changed
C40_Witness ==
    \E j, k \in JobIds :
        /\ jobs[j].chat_id = UnmanagedChat
        /\ UnmanagedChat \notin DOMAIN managed_groups
        /\ jobs[k].chat_id \in Groups
        /\ ~managed_groups[jobs[k].chat_id].is_active
        /\ jobs[j].status = "failed"
        /\ jobs[k].status = "failed"
        /\ \A key \in Users \X Chats : join_requests[key] = <<>>
        /\ \A i \in JobIds : approve_log[i] = <<>>

====
